---- MODULE Spec2Model ----
(***************************************************************************)
(* A model of the Conflux-style consensus core:                            *)
(*   - SynchronizationGraph  (core/src/sync/synchronization_graph.rs)      *)
(*   - ConsensusGraph        (core/src/consensus/mod.rs)                   *)
(* Blocks are identified by their hash (a small natural number); slab      *)
(* indices of the SynchronizationGraph are replaced by the hash they are   *)
(* in bijection with (inner.indices).                                      *)
(***************************************************************************)
EXTENDS Integers, Sequences, FiniteSets, TLC

(***************************************************************************)
(* Bounds of the model                                                     *)
(***************************************************************************)
\* number of non-genesis headers of the header table that peers may submit
NumBlocks == 3
\* largest value of the wall clock (SystemTime::now() in seconds)
MaxTime == 1

(***************************************************************************)
(* Program constants                                                       *)
(***************************************************************************)
NULL == -1
BLOCK_INVALID == 0
BLOCK_HEADER_ONLY == 1
BLOCK_HEADER_PARENTAL_TREE_READY == 2
BLOCK_HEADER_GRAPH_READY == 3
BLOCK_GRAPH_READY == 4

\* H256::default(), the parent hash of the genesis block
H256_DEFAULT == 0
\* hash of the genesis block (data_man.genesis_block().hash())
GENESIS_HASH == 1

\* pow_config (ProofOfWorkConfig) of the node
initial_difficulty == 2
difficulty_adjustment_epoch_period == 2
\* machine.params()
gas_limit_bound_divisor == 1024
min_gas_limit == 10000000
GENESIS_GAS_LIMIT == 30000000

(***************************************************************************)
(* Generic helpers                                                         *)
(***************************************************************************)
Range(s) == {s[i] : i \in 1..Len(s)}

\* f as the table of its values; TLC would otherwise carry the expression of
\* a function constructor around unevaluated
Table(f) == f @@ <<>>

Max2(a, b) == IF a >= b THEN a ELSE b

Min2(a, b) == IF a <= b THEN a ELSE b

\* Vec::retain(|&x| x != v)
Retain(s, v) == SelectSeq(s, LAMBDA x : x # v)

(***************************************************************************)
(* Block headers.  A hash determines its header, so the headers that can   *)
(* ever be submitted form a fixed table; which of them arrive, in which    *)
(* order and with which body is chosen by the environment.                 *)
(***************************************************************************)
\* params_ok:   verify_header_params accepts the header
\* adaptive:    the adaptive flag the miner wrote in the header
\* pow_quality: the quality of the proof of work
\* deferred_ok: deferred_state_root and deferred_receipts_root are the roots
\*              of the deferred epoch
\* target:      what pow::target_difficulty answers for the period that ends
\*              at this block
Header(hash, parent_hash, referee_hashes, height, timestamp, gas_limit, difficulty, params_ok) ==
  [hash |-> hash, parent_hash |-> parent_hash, referee_hashes |-> referee_hashes,
   height |-> height, timestamp |-> timestamp, gas_limit |-> gas_limit,
   difficulty |-> difficulty, params_ok |-> params_ok,
   adaptive |-> FALSE, pow_quality |-> difficulty, deferred_ok |-> TRUE,
   target |-> difficulty]

genesis_header ==
  Header(GENESIS_HASH, H256_DEFAULT, <<>>, 0, 0, GENESIS_GAS_LIMIT, initial_difficulty, TRUE)

\* The environment is one of several small networks ("worlds"); every world
\* assigns the hashes 2, 3, ... to the blocks its peers may submit.
\*
\* ValidWorld: a well-formed DAG.
\*   2 (A): child of genesis            3 (B): child of A
\*   4 (D): child of genesis referencing B
\*   5 (C): child of B referencing D
ValidWorld ==
  [h \in 1..5 |->
     CASE h = 1 -> genesis_header
       [] h = 2 -> Header(2, 1, <<>>,  1, 1, GENESIS_GAS_LIMIT, initial_difficulty, TRUE)
       [] h = 3 -> Header(3, 2, <<>>,  2, 2, GENESIS_GAS_LIMIT, initial_difficulty, TRUE)
       [] h = 4 -> Header(4, 1, <<3>>, 1, 2, GENESIS_GAS_LIMIT, initial_difficulty, TRUE)
       [] OTHER -> Header(h, 3, <<4>>, 3, 3, GENESIS_GAS_LIMIT, initial_difficulty, TRUE)]

\* TimestampWorld: a header that fails verify_header_graph_ready_block.
\*   2 (D): child of genesis            3 (X): child of D, timestamp earlier
\*   4 (Y): child of X                         than its parent's
\*   5 (V): child of genesis referencing Y
TimestampWorld ==
  [h \in 1..5 |->
     CASE h = 1 -> genesis_header
       [] h = 2 -> Header(2, 1, <<>>,  1, 1, GENESIS_GAS_LIMIT, initial_difficulty, TRUE)
       [] h = 3 -> Header(3, 2, <<>>,  2, 0, GENESIS_GAS_LIMIT, initial_difficulty, TRUE)
       [] h = 4 -> Header(4, 3, <<>>,  3, 3, GENESIS_GAS_LIMIT, initial_difficulty, TRUE)
       [] OTHER -> Header(h, 1, <<4>>, 1, 3, GENESIS_GAS_LIMIT, initial_difficulty, TRUE)]

\* ParamsWorld: a header that fails verify_header_params.
\*   2 (Z): child of genesis, bad       3 (W): child of Z
\*   4 (V): child of genesis referencing W
\*   5 (U): child of V
ParamsWorld ==
  [h \in 1..5 |->
     CASE h = 1 -> genesis_header
       [] h = 2 -> Header(2, 1, <<>>,  1, 1, GENESIS_GAS_LIMIT, initial_difficulty, FALSE)
       [] h = 3 -> Header(3, 2, <<>>,  2, 2, GENESIS_GAS_LIMIT, initial_difficulty, TRUE)
       [] h = 4 -> Header(4, 1, <<3>>, 1, 2, GENESIS_GAS_LIMIT, initial_difficulty, TRUE)
       [] OTHER -> Header(h, 4, <<>>,  2, 2, GENESIS_GAS_LIMIT, initial_difficulty, TRUE)]

\* SiblingWorld: a block that references a sibling.
\*   2 (A): child of genesis            3 (B): child of A
\*   4 (S): child of A referencing B    5 (T): child of S
SiblingWorld ==
  [h \in 1..5 |->
     CASE h = 1 -> genesis_header
       [] h = 2 -> Header(2, 1, <<>>,  1, 1, GENESIS_GAS_LIMIT, initial_difficulty, TRUE)
       [] h = 3 -> Header(3, 2, <<>>,  2, 2, GENESIS_GAS_LIMIT, initial_difficulty, TRUE)
       [] h = 4 -> Header(4, 2, <<3>>, 2, 2, GENESIS_GAS_LIMIT, initial_difficulty, TRUE)
       [] OTHER -> Header(h, 4, <<>>,  3, 3, GENESIS_GAS_LIMIT, initial_difficulty, TRUE)]

\* hashes of the headers peers may submit
Submittable == 2..(NumBlocks + 1)

\* every hash that can be named by a submitted header
AllHashes == 1..(NumBlocks + 1)

Restrict(world) == Table([h \in AllHashes |-> IF h \in DOMAIN world THEN world[h]
                                        ELSE Header(h, 1, <<>>, 1, 1, GENESIS_GAS_LIMIT,
                                                    initial_difficulty, TRUE)])

Worlds == {Restrict(ValidWorld), Restrict(TimestampWorld), Restrict(ParamsWorld),
           Restrict(SiblingWorld)}

(***************************************************************************)
(* State                                                                   *)
(***************************************************************************)
VARIABLES
  block_table,        \* the blocks that exist in the network: hash -> header
  inner,              \* SynchronizationGraph.inner (SynchronizationGraphInner)
  data_man,           \* BlockDataManager: invalid set, stored headers and bodies,
                      \* block statuses
  consensus,          \* ConsensusGraph.inner (ConsensusGraphInner), with the queue
                      \* of ConsensusGraph.executor
  consensus_channel,  \* mpsc channel consensus_sender -> consensus_receiver
  worker_alive,       \* the "Consensus Worker" thread has not panicked
  now,                \* SystemTime::now() in seconds
  recovery,           \* progress of recover_graph_from_db in the constructor
  sent,               \* history: the hashes handed to Consensus, in order
  handled,            \* history: the hashes on_new_block was called with
  last,               \* history: the last operation and its result
  bft,                \* the BFT Executor: its administrators, the block it is
                      \* asked to execute and what execute_block returned
  brutal              \* a call of adaptive_weight_impl_brutal: its arguments, its
                      \* local variables and the loop it is in

HeaderOf(h) == block_table[h]

\* Option<ValidatorVerifier>: None
NoAdministrators == [is_some |-> FALSE, voting_power |-> <<>>, quorum_voting_power |-> 0]

\* the Executor after Executor::new, with no block to execute; returned
\* tells whether execute_block was called and output is what it returned
BftIdle ==
  [administrators |-> NoAdministrators, transactions |-> <<>>, last_pivot |-> NULL,
   current_epoch |-> 0, returned |-> FALSE,
   output |-> [ok |-> FALSE, error |-> "", next_validator_set |-> NULL,
               next_pivot_block |-> NULL, pivot_updated |-> FALSE]]

\* no call of adaptive_weight_impl_brutal: pc names the loop the call is in,
\* entered the block the loop started from and iterations the number of
\* times its body ran without leaving it
BrutalIdle ==
  [pc |-> "none", arena |-> <<>>, parent_0 |-> NULL, difficulty |-> 0, parent |-> NULL,
   stable |-> TRUE, adaptive |-> FALSE, entered |-> NULL, iterations |-> 0]

(***************************************************************************)
(* SynchronizationGraphInner                                               *)
(***************************************************************************)
SynchronizationGraphNode(status, ready, t) ==
  [graph_status |-> status, block_ready |-> ready, parent_reclaimed |-> FALSE,
   parent |-> NULL, children |-> <<>>, referees |-> <<>>,
   pending_referee_count |-> 0, referrers |-> <<>>, timestamp |-> t]

\* arena with one more node
ArenaPut(arena, h, node) ==
  Table([x \in (DOMAIN arena) \cup {h}
     |-> IF x = h THEN node ELSE arena[x]])

\* Slab::remove
ArenaRemove(arena, h) == Table([x \in (DOMAIN arena) \ {h} |-> arena[x]])

\* the part of insert / insert_invalid that adopts the nodes waiting for hash
AdoptWaiting(im, me) ==
  LET children == im.children_by_hash[me]
      referrers == im.referrers_by_hash[me]
      arena1 == Table([x \in DOMAIN im.arena |->
                   IF x = me
                     THEN [im.arena[x] EXCEPT !.children = children,
                                                 !.referrers = referrers]
                     ELSE LET n0 == im.arena[x]
                              n1 == IF x \in Range(children)
                                      THEN [n0 EXCEPT !.parent = me] ELSE n0
                          IN IF x \in Range(referrers)
                               THEN [n1 EXCEPT !.referees = Append(@, me),
                                               !.pending_referee_count =
                                                  IF @ > 0 THEN @ - 1 ELSE @]
                               ELSE n1])
  IN [im EXCEPT !.arena = arena1,
                   !.children_by_hash[me] = <<>>,
                   !.referrers_by_hash[me] = <<>>]

insert_invalid(im, header, t) ==
  LET me == header.hash
      arena0 == ArenaPut(im.arena, me,
                         SynchronizationGraphNode(BLOCK_INVALID, FALSE, t))
  IN AdoptWaiting([im EXCEPT !.arena = arena0], me)

insert(im, header, t) ==
  LET me == header.hash
      is_genesis == header.parent_hash = H256_DEFAULT
      arena0 == ArenaPut(im.arena, me,
                  SynchronizationGraphNode(
                    IF is_genesis THEN BLOCK_GRAPH_READY ELSE BLOCK_HEADER_ONLY,
                    is_genesis, t))
      parent_hash == header.parent_hash
      parent_known == parent_hash # H256_DEFAULT /\ parent_hash \in DOMAIN arena0
      known_referees == SelectSeq(header.referee_hashes, LAMBDA r : r \in DOMAIN arena0)
      unknown_referees == SelectSeq(header.referee_hashes, LAMBDA r : r \notin DOMAIN arena0)
      arena1 == Table([x \in DOMAIN arena0 |->
                   LET n0 == arena0[x]
                       n1 == IF x = me
                               THEN [n0 EXCEPT !.parent = IF parent_known THEN parent_hash ELSE NULL,
                                               !.referees = known_referees,
                                               !.pending_referee_count = Len(unknown_referees)]
                               ELSE n0
                       n2 == IF parent_known /\ x = parent_hash
                               THEN [n1 EXCEPT !.children = Append(@, me)] ELSE n1
                   IN IF x \in Range(known_referees)
                        THEN [n2 EXCEPT !.referrers = Append(@, me)] ELSE n2])
      cbh == IF parent_hash # H256_DEFAULT /\ ~parent_known
               THEN [im.children_by_hash EXCEPT ![parent_hash] = Append(@, me)]
               ELSE im.children_by_hash
      rbh == Table([h \in DOMAIN im.referrers_by_hash |->
                IF h \in Range(unknown_referees)
                  THEN Append(im.referrers_by_hash[h], me)
                  ELSE im.referrers_by_hash[h]])
  IN AdoptWaiting([im EXCEPT !.arena = arena1,
                                !.children_by_hash = cbh,
                                !.referrers_by_hash = rbh], me)

new_to_be_header_parental_tree_ready(arena, index) ==
  LET node_me == arena[index]
      parent == node_me.parent
  IN IF node_me.graph_status >= BLOCK_HEADER_PARENTAL_TREE_READY THEN FALSE
     ELSE node_me.parent_reclaimed
          \/ (parent # NULL
              /\ arena[parent].graph_status >= BLOCK_HEADER_PARENTAL_TREE_READY)

new_to_be_header_graph_ready(arena, index) ==
  LET node_me == arena[index]
      parent == node_me.parent
  IN IF node_me.graph_status >= BLOCK_HEADER_GRAPH_READY THEN FALSE
     ELSE IF node_me.pending_referee_count > 0 THEN FALSE
     ELSE (node_me.parent_reclaimed
           \/ (parent # NULL
               /\ arena[parent].graph_status >= BLOCK_HEADER_GRAPH_READY))
          /\ ~(\E i \in 1..Len(node_me.referees) :
                 arena[node_me.referees[i]].graph_status < BLOCK_HEADER_GRAPH_READY)

\* new_to_be_block_graph_ready without the condition on the referees
new_to_be_block_graph_ready_ignoring_referees(arena, index) ==
  LET node_me == arena[index]
      parent == node_me.parent
  IN IF ~node_me.block_ready THEN FALSE
     ELSE IF node_me.graph_status >= BLOCK_GRAPH_READY THEN FALSE
     ELSE node_me.graph_status >= BLOCK_HEADER_GRAPH_READY
          /\ (node_me.parent_reclaimed
              \/ (parent # NULL
                  /\ arena[parent].graph_status >= BLOCK_GRAPH_READY))

\* new_to_be_block_graph_ready that also answers true for a node that is
\* BLOCK_GRAPH_READY already
new_to_be_block_graph_ready_again(arena, index) ==
  LET node_me == arena[index]
      parent == node_me.parent
  IN IF ~node_me.block_ready THEN FALSE
     ELSE node_me.graph_status >= BLOCK_HEADER_GRAPH_READY
          /\ (node_me.parent_reclaimed
              \/ (parent # NULL
                  /\ arena[parent].graph_status >= BLOCK_GRAPH_READY))
          /\ ~(\E i \in 1..Len(node_me.referees) :
                 arena[node_me.referees[i]].graph_status < BLOCK_GRAPH_READY)

new_to_be_block_graph_ready(arena, index) ==
  LET node_me == arena[index]
      parent == node_me.parent
  IN IF ~node_me.block_ready THEN FALSE
     ELSE IF node_me.graph_status >= BLOCK_GRAPH_READY THEN FALSE
     ELSE node_me.graph_status >= BLOCK_HEADER_GRAPH_READY
          /\ (node_me.parent_reclaimed
              \/ (parent # NULL
                  /\ arena[parent].graph_status >= BLOCK_GRAPH_READY))
          /\ ~(\E i \in 1..Len(node_me.referees) :
                 arena[node_me.referees[i]].graph_status < BLOCK_GRAPH_READY)

\* pow_config.get_adjustment_bound(parent_difficulty)
get_adjustment_bound(diff) == <<diff - (diff \div 2), diff + (diff \div 2)>>

\* verify_header_graph_ready_block without its difficulty check
verify_header_graph_ready_block_without_difficulty(arena, index) ==
  LET header == HeaderOf(index)
      parent_header == HeaderOf(header.parent_hash)
      parent_gas_limit == parent_header.gas_limit
      gas_lower == Max2(parent_gas_limit - (parent_gas_limit \div gas_limit_bound_divisor),
                        min_gas_limit)
      gas_upper == parent_gas_limit + (parent_gas_limit \div gas_limit_bound_divisor)
  IN /\ parent_header.height + 1 = header.height
     /\ parent_header.timestamp <= header.timestamp
     /\ \A i \in 1..Len(header.referee_hashes) :
          HeaderOf(header.referee_hashes[i]).timestamp <= header.timestamp
     /\ ~(header.gas_limit <= gas_lower \/ header.gas_limit >= gas_upper)

\* Ok(()) is TRUE, any Err is FALSE
verify_header_graph_ready_block(arena, index) ==
  LET header == HeaderOf(index)
      epoch == header.height
      parent_header == HeaderOf(header.parent_hash)
      parent_height == parent_header.height
      parent_timestamp == parent_header.timestamp
      parent_gas_limit == parent_header.gas_limit
      parent_difficulty == parent_header.difficulty
      my_timestamp == header.timestamp
      gas_lower == Max2(parent_gas_limit - (parent_gas_limit \div gas_limit_bound_divisor),
                        min_gas_limit)
      gas_upper == parent_gas_limit + (parent_gas_limit \div gas_limit_bound_divisor)
      self_gas_limit == header.gas_limit
      my_diff == header.difficulty
      last_period_upper == (parent_height \div difficulty_adjustment_epoch_period)
                             * difficulty_adjustment_epoch_period
      bound == get_adjustment_bound(parent_difficulty)
      difficulty_invalid ==
        IF parent_height < difficulty_adjustment_epoch_period
          THEN my_diff # initial_difficulty
          ELSE IF last_period_upper # parent_height
                 THEN my_diff # parent_difficulty
                 ELSE my_diff < bound[1] \/ my_diff > bound[2]
  IN IF parent_height + 1 # epoch THEN FALSE
     ELSE IF parent_timestamp > my_timestamp THEN FALSE
     ELSE IF \E i \in 1..Len(header.referee_hashes) :
               HeaderOf(header.referee_hashes[i]).timestamp > my_timestamp THEN FALSE
     ELSE IF self_gas_limit <= gas_lower \/ self_gas_limit >= gas_upper THEN FALSE
     ELSE ~difficulty_invalid

\* the loop over one list (children or referrers) of set_and_propagate_invalid;
\* st has the fields arena, queue and invalid_set
RECURSIVE MarkInvalidEach(_, _)
MarkInvalidEach(st, list) ==
  IF list = <<>> THEN st
  ELSE LET x == Head(list)
       IN IF x \notin st.invalid_set
            THEN MarkInvalidEach(
                   [st EXCEPT !.arena[x].graph_status = BLOCK_INVALID,
                              !.queue = Append(@, x),
                              !.invalid_set = @ \cup {x}],
                   Tail(list))
            ELSE MarkInvalidEach(st, Tail(list))

\* set_and_propagate_invalid that taints the children only
set_and_propagate_invalid_children_only(st, index) ==
  MarkInvalidEach(st, st.arena[index].children)

set_and_propagate_invalid(st, index) ==
  MarkInvalidEach(MarkInvalidEach(st, st.arena[index].children),
                  st.arena[index].referrers)

\* remove_blocks with the data manager calls it makes; st has the fields
\* inner and data_man
RECURSIVE remove_blocks(_, _)
remove_blocks(st, invalid_set) ==
  IF invalid_set = {} THEN st
  ELSE LET index == CHOOSE x \in invalid_set : TRUE
           im == st.inner
           node == im.arena[index]
           parent == node.parent
           parent_hash == HeaderOf(index).parent_hash
           referee_hashes == Range(HeaderOf(index).referee_hashes)
           arena1 == Table([x \in DOMAIN im.arena |->
                        LET n0 == im.arena[x]
                            n1 == IF parent # NULL /\ x = parent
                                    THEN [n0 EXCEPT !.children = Retain(@, index)] ELSE n0
                            n2 == IF x \in Range(node.referees)
                                    THEN [n1 EXCEPT !.referrers = Retain(@, index)] ELSE n1
                            n3 == IF x \in Range(node.children)
                                    THEN [n2 EXCEPT !.parent = NULL] ELSE n2
                        IN IF x \in Range(node.referrers)
                             THEN [n3 EXCEPT !.referees = Retain(@, index)] ELSE n3])
           cbh == IF parent_hash \in DOMAIN im.children_by_hash
                    THEN [im.children_by_hash EXCEPT ![parent_hash] = Retain(@, index)]
                    ELSE im.children_by_hash
           rbh == Table([h \in DOMAIN im.referrers_by_hash |->
                     IF h \in referee_hashes
                       THEN Retain(im.referrers_by_hash[h], index)
                       ELSE im.referrers_by_hash[h]])
           inner1 == [im EXCEPT
                        !.not_ready_block_indices = @ \ {index},
                        !.old_era_blocks_frontier_set = @ \ {index},
                        !.arena = ArenaRemove(arena1, index),
                        !.children_by_hash = cbh,
                        !.referrers_by_hash = rbh]
           data_man1 == [st.data_man EXCEPT !.headers = @ \ {index},
                                            !.blocks = @ \ {index}]
       IN remove_blocks([st EXCEPT !.inner = inner1, !.data_man = data_man1],
                        invalid_set \ {index})

\* data_man.verified_invalid
verified_invalid(dm, hash) == hash \in dm.invalid

\* process_invalid_blocks that forgets to call data_man.invalidate_block
process_invalid_blocks_not_memoizing(st, invalid_set) ==
  remove_blocks(st, invalid_set)

\* data_man.invalidate_block(hash) for every index, then remove_blocks
process_invalid_blocks(st, invalid_set) ==
  LET data_man1 == [st.data_man EXCEPT !.invalid = @ \cup invalid_set]
  IN remove_blocks([st EXCEPT !.data_man = data_man1], invalid_set)

\* try_clear_old_era_blocks: the loop over old_era_blocks_frontier; st has the
\* fields inner and data_man
RECURSIVE ClearOldEraLoop(_, _, _, _)
ClearOldEraLoop(st, era_genesis, num_cleared, era_genesis_in_frontier) ==
  LET im == st.inner
  IN IF im.old_era_blocks_frontier = <<>> \/ num_cleared = 2
       THEN IF era_genesis_in_frontier
              THEN [st EXCEPT !.inner.old_era_blocks_frontier = <<era_genesis>> \o @]
              ELSE st
       ELSE LET index == Head(im.old_era_blocks_frontier)
                popped == [im EXCEPT !.old_era_blocks_frontier = Tail(@)]
            IN IF index = era_genesis
                 THEN ClearOldEraLoop([st EXCEPT !.inner = popped], era_genesis,
                                      num_cleared, TRUE)
                 ELSE IF index \notin im.old_era_blocks_frontier_set
                 THEN ClearOldEraLoop([st EXCEPT !.inner = popped], era_genesis,
                                      num_cleared, era_genesis_in_frontier)
                 ELSE LET node == popped.arena[index]
                          ready_children ==
                            SelectSeq(node.children,
                                      LAMBDA c : popped.arena[c].graph_status = BLOCK_GRAPH_READY)
                          arena1 == Table([x \in DOMAIN popped.arena |->
                                       LET n0 == popped.arena[x]
                                           n1 == IF x \in Range(node.referees)
                                                   THEN [n0 EXCEPT !.referrers = Retain(@, index)]
                                                   ELSE n0
                                           n2 == IF x \in Range(node.children)
                                                   THEN [n1 EXCEPT !.parent = NULL,
                                                                   !.parent_reclaimed = TRUE]
                                                   ELSE n1
                                       IN IF x \in Range(node.referrers)
                                            THEN [n2 EXCEPT !.referees = Retain(@, index)]
                                            ELSE n2])
                          rbh == Table([h \in DOMAIN popped.referrers_by_hash |->
                                    IF h \in Range(HeaderOf(index).referee_hashes)
                                      THEN Retain(popped.referrers_by_hash[h], index)
                                      ELSE popped.referrers_by_hash[h]])
                          inner1 == [popped EXCEPT
                                       !.arena = ArenaRemove(arena1, index),
                                       !.referrers_by_hash = rbh,
                                       !.not_ready_block_indices = @ \ Range(ready_children),
                                       !.old_era_blocks_frontier = @ \o ready_children,
                                       !.old_era_blocks_frontier_set =
                                          (@ \cup Range(ready_children)) \ {index}]
                          data_man1 == [st.data_man EXCEPT !.headers = @ \ {index}]
                      IN ClearOldEraLoop([st EXCEPT !.inner = inner1, !.data_man = data_man1],
                                         era_genesis, num_cleared + 1,
                                         era_genesis_in_frontier)

\* try_clear_old_era_blocks that does not spare the era genesis
try_clear_old_era_blocks_sparing_nothing(st) ==
  ClearOldEraLoop(st, NULL, 0, FALSE)

\* FIXME in the source: the era genesis is always the genesis block
get_genesis_in_current_era(im) == im.genesis_block_index

try_clear_old_era_blocks(st) ==
  ClearOldEraLoop(st, get_genesis_in_current_era(st.inner), 0, FALSE)

(***************************************************************************)
(* SynchronizationGraph::insert_block_header                               *)
(***************************************************************************)
\* verification_config.verify_header_params(header).is_ok()
verify_header_params(header) == header.params_ok

parent_or_referees_invalid(dm, header) ==
  verified_invalid(dm, header.parent_hash)
  \/ \E i \in 1..Len(header.referee_hashes) :
        verified_invalid(dm, header.referee_hashes[i])

\* "Start to pass influence to descendants": st has the fields arena, queue,
\* invalid_set, need_to_relay, me_invalid and headers (the header store of the
\* data manager); t is SystemTime::now()
RECURSIVE HeaderReadyLoop(_, _, _, _)
HeaderReadyLoop(st, me, need_to_verify, t) ==
  IF st.queue = <<>> THEN st
  ELSE
    LET index == Head(st.queue)
        st0 == [st EXCEPT !.queue = Tail(@)]
        note_me(s) == IF me = index
                        THEN [s EXCEPT !.invalid_set = @ \cup {me}, !.me_invalid = TRUE]
                        ELSE s
        store_me(s) == IF me = index THEN [s EXCEPT !.headers = @ \cup {me}] ELSE s
    IN IF st0.arena[index].graph_status = BLOCK_INVALID
         THEN HeaderReadyLoop(set_and_propagate_invalid(note_me(st0), index),
                              me, need_to_verify, t)
       ELSE IF new_to_be_header_graph_ready(st0.arena, index)
         THEN LET st1 == [st0 EXCEPT !.arena[index].graph_status = BLOCK_HEADER_GRAPH_READY,
                                     !.arena[index].timestamp = t]
                  r == verify_header_graph_ready_block(st1.arena, index)
              IN IF need_to_verify /\ ~r
                   THEN LET st2 == [note_me(st1) EXCEPT
                                      !.arena[index].graph_status = BLOCK_INVALID]
                        IN HeaderReadyLoop(set_and_propagate_invalid(st2, index),
                                           me, need_to_verify, t)
                   ELSE LET below(x) == st1.arena[x].graph_status < BLOCK_HEADER_GRAPH_READY
                            st2 == [st1 EXCEPT
                                      !.need_to_relay =
                                         IF st1.arena[index].block_ready
                                           THEN Append(@, index) ELSE @,
                                      !.queue = @ \o SelectSeq(st1.arena[index].children, below)
                                                  \o SelectSeq(st1.arena[index].referrers, below)]
                        IN HeaderReadyLoop(store_me(st2), me, need_to_verify, t)
       ELSE IF new_to_be_header_parental_tree_ready(st0.arena, index)
         THEN LET st1 == [st0 EXCEPT
                            !.arena[index].graph_status = BLOCK_HEADER_PARENTAL_TREE_READY,
                            !.arena[index].timestamp = t,
                            !.queue = @ \o st0.arena[index].children]
              IN HeaderReadyLoop(store_me(st1), me, need_to_verify, t)
       ELSE HeaderReadyLoop(store_me(st0), me, need_to_verify, t)

\* insert_block_header after the propagation loop: "Post-processing invalid
\* blocks", the early return when the header itself is invalid, and
\* try_clear_old_era_blocks
HeaderPostProcess(looped, processed) ==
  LET cleared == IF looped.me_invalid THEN processed
                 ELSE try_clear_old_era_blocks(processed)
  IN [inner |-> cleared.inner, data_man |-> cleared.data_man,
      accepted |-> ~looped.me_invalid, to_relay |-> looped.need_to_relay,
      before_removal |-> looped.arena]

\* insert_block_header from the propagation loop on
HeaderPropagate(inner2, dm, looped) ==
  HeaderPostProcess(
    looped,
    process_invalid_blocks(
      [inner |-> [inner2 EXCEPT !.arena = looped.arena],
       data_man |-> [dm EXCEPT !.headers = looped.headers]],
      looped.invalid_set))

\* insert_block_header once the node is in the arena
HeaderInserted(inner1, dm, me, need_to_verify, t) ==
  LET inner2 == IF inner1.arena[me].graph_status # BLOCK_GRAPH_READY
                  THEN [inner1 EXCEPT !.not_ready_block_indices = @ \cup {me}]
                  ELSE inner1
  IN HeaderPropagate(
       inner2, dm,
       HeaderReadyLoop([arena |-> inner2.arena, queue |-> <<me>>, invalid_set |-> {},
                        need_to_relay |-> <<>>, me_invalid |-> FALSE,
                        headers |-> dm.headers],
                       me, need_to_verify, t))

\* The whole of insert_block_header.  The result has the fields inner,
\* data_man, accepted, to_relay and before_removal (the arena as the
\* propagation loop left it, before process_invalid_blocks).
insert_block_header(im, dm, header, need_to_verify, t) ==
  LET hash == header.hash
      unchanged(acc) == [inner |-> im, data_man |-> dm, accepted |-> acc,
                         to_relay |-> <<>>, before_removal |-> im.arena]
      verification_passed ==
        IF need_to_verify
          THEN ~(parent_or_referees_invalid(dm, header)
                 \/ ~verify_header_params(header))
          ELSE TRUE
  IN IF verified_invalid(dm, hash) THEN unchanged(FALSE)
     ELSE IF hash \in DOMAIN im.arena THEN unchanged(TRUE)
     ELSE HeaderInserted(IF verification_passed THEN insert(im, header, t)
                         ELSE insert_invalid(im, header, t),
                         dm, hash, need_to_verify, t)

(***************************************************************************)
(* SynchronizationGraph::insert_block                                      *)
(***************************************************************************)
\* The bodies a peer can send for a header: a well-formed one, one whose
\* transactions root does not match the header, one that fails another check
\* of verify_block_basic.
BodyKinds == {"valid", "bad_transactions_root", "bad_other"}

\* "while let Some(index) = queue.pop_front()" of insert_block: st has the
\* fields inner, queue, invalid_set, sends (the hashes handed to Consensus,
\* in order) and panicked.  deliverable is FALSE when consensus_sender.send
\* fails because the receiver is gone (normal mode).
RECURSIVE BlockReadyLoop(_, _, _)
BlockReadyLoop(st, me, deliverable) ==
  IF st.queue = <<>> \/ st.panicked THEN st
  ELSE
    LET index == Head(st.queue)
        st0 == [st EXCEPT !.queue = Tail(@)]
        arena == st0.inner.arena
    IN IF arena[index].graph_status = BLOCK_INVALID
         THEN LET st1 == IF index = me THEN [st0 EXCEPT !.invalid_set = @ \cup {me}]
                         ELSE st0
                  p == set_and_propagate_invalid(
                         [arena |-> arena, queue |-> st1.queue,
                          invalid_set |-> st1.invalid_set], index)
              IN BlockReadyLoop([st1 EXCEPT !.inner.arena = p.arena,
                                            !.queue = p.queue,
                                            !.invalid_set = p.invalid_set],
                                me, deliverable)
       ELSE IF new_to_be_block_graph_ready(arena, index)
         THEN LET reclaimed == arena[index].parent_reclaimed
                  st1 == [st0 EXCEPT
                            !.inner.arena[index].graph_status = BLOCK_GRAPH_READY,
                            !.inner.old_era_blocks_frontier =
                               IF reclaimed THEN Append(@, index) ELSE @,
                            !.inner.old_era_blocks_frontier_set =
                               IF reclaimed THEN @ \cup {index} ELSE @,
                            !.inner.not_ready_block_indices = @ \ {index}]
              IN IF ~deliverable
                   THEN [st1 EXCEPT !.panicked = TRUE]
                   ELSE BlockReadyLoop(
                          [st1 EXCEPT !.sends = Append(@, index),
                                      !.queue = @ \o arena[index].children
                                                  \o arena[index].referrers],
                          me, deliverable)
       ELSE BlockReadyLoop(st0, me, deliverable)

BlockResult(outc, i, d, acc, relay, sends, before) ==
  [outcome |-> outc, inner |-> i, data_man |-> d, accepted |-> acc,
   need_to_relay |-> relay, sends |-> sends, before_removal |-> before]

\* insert_block after its loop: need_to_relay and process_invalid_blocks; a
\* failed send has unwound the call before them
BlockPostProcess(me, me_valid, data_man1, looped, processed) ==
  IF looped.panicked
    THEN BlockResult("panic", looped.inner, data_man1, FALSE, FALSE,
                     looped.sends, looped.inner.arena)
    ELSE BlockResult("returned", processed.inner, processed.data_man, me_valid,
                     looped.inner.arena[me].graph_status >= BLOCK_HEADER_GRAPH_READY,
                     looped.sends, looped.inner.arena)

BlockPropagate(me, me_valid, data_man1, looped) ==
  BlockPostProcess(me, me_valid, data_man1, looped,
                   process_invalid_blocks(
                     [inner |-> looped.inner, data_man |-> data_man1],
                     looped.invalid_set))

\* insert_block once verify_block_basic has answered
BlockVerified(inner2, dm, me, sync_graph_only, deliverable) ==
  LET me_valid == inner2.arena[me].graph_status # BLOCK_INVALID
  IN BlockPropagate(
       me, me_valid,
       IF me_valid /\ ~sync_graph_only THEN [dm EXCEPT !.blocks = @ \cup {me}] ELSE dm,
       BlockReadyLoop([inner |-> inner2, queue |-> <<me>>, invalid_set |-> {},
                       sends |-> <<>>, panicked |-> FALSE], me, deliverable))

\* insert_block without the early return for a block that is already there
insert_block_not_testing_contains_block(im, dm, hash, body, need_to_verify, sync_graph_only, deliverable) ==
  IF verified_invalid(dm, hash)
    THEN BlockResult("returned", im, dm, FALSE, FALSE, <<>>, im.arena)
  ELSE IF hash \notin DOMAIN im.arena
    THEN BlockResult("panic", im, dm, FALSE, FALSE, <<>>, im.arena)
  ELSE IF need_to_verify /\ body = "bad_transactions_root"
    THEN BlockResult("returned", [im EXCEPT !.arena[hash].block_ready = TRUE], dm,
                     FALSE, FALSE, <<>>,
                     [im.arena EXCEPT ![hash].block_ready = TRUE])
  ELSE BlockVerified(
         [im EXCEPT !.arena[hash].block_ready = TRUE,
                    !.arena[hash].graph_status =
                       IF need_to_verify /\ body # "valid" THEN BLOCK_INVALID ELSE @],
         dm, hash, sync_graph_only, deliverable)

\* The whole of insert_block.  outcome is "panic" when indices.get(&hash)
\* is None at the unwrap or when send fails, "returned" otherwise.
insert_block(im, dm, hash, body, need_to_verify, sync_graph_only, deliverable) ==
  LET contains_block == IF hash \in DOMAIN im.arena
                          THEN im.arena[hash].block_ready ELSE FALSE
  IN IF verified_invalid(dm, hash)
       THEN BlockResult("returned", im, dm, FALSE, FALSE, <<>>, im.arena)
     ELSE IF contains_block
       THEN BlockResult("returned", im, dm, TRUE, FALSE, <<>>, im.arena)
     ELSE IF hash \notin DOMAIN im.arena
       THEN BlockResult("panic", im, dm, FALSE, FALSE, <<>>, im.arena)
     ELSE IF need_to_verify /\ body = "bad_transactions_root"
       THEN BlockResult("returned", [im EXCEPT !.arena[hash].block_ready = TRUE], dm,
                        FALSE, FALSE, <<>>,
                        [im.arena EXCEPT ![hash].block_ready = TRUE])
     ELSE BlockVerified(
            [im EXCEPT !.arena[hash].block_ready = TRUE,
                       !.arena[hash].graph_status =
                          IF need_to_verify /\ body # "valid" THEN BLOCK_INVALID ELSE @],
            dm, hash, sync_graph_only, deliverable)

(***************************************************************************)
(* SynchronizationGraph::remove_expire_blocks                              *)
(***************************************************************************)
\* the elements of a set of hashes as a sequence
RECURSIVE SetToSeq(_)
SetToSeq(S) ==
  IF S = {} THEN <<>>
  ELSE LET x == CHOOSE y \in S : \A z \in S : y <= z
       IN <<x>> \o SetToSeq(S \ {x})

\* st has the fields arena, queue and invalid_set (the expire_set)
RECURSIVE ExpireLoop(_, _, _)
ExpireLoop(st, t, expire_time) ==
  IF st.queue = <<>> THEN st
  ELSE
    LET index == Head(st.queue)
        st0 == [st EXCEPT !.queue = Tail(@)]
    IN IF st0.arena[index].graph_status = BLOCK_INVALID
          \/ t - st0.arena[index].timestamp > expire_time
         THEN ExpireLoop(
                set_and_propagate_invalid(
                  [st0 EXCEPT !.arena[index].graph_status = BLOCK_INVALID], index),
                t, expire_time)
         ELSE ExpireLoop([st0 EXCEPT !.invalid_set = @ \ {index}], t, expire_time)

ExpireResult(looped, removed) ==
  [inner |-> removed.inner, data_man |-> removed.data_man, acted |-> TRUE,
   before_removal |-> looped.arena]

ExpireRemove(im, dm, looped) ==
  ExpireResult(looped,
               remove_blocks([inner |-> [im EXCEPT !.arena = looped.arena],
                              data_man |-> dm], looped.invalid_set))

\* the nodes of not_ready_block_indices without a not-ready predecessor
ExpireRoots(im) ==
  im.not_ready_block_indices
    \ UNION {Range(im.arena[i].children) \cup Range(im.arena[i].referrers)
               : i \in im.not_ready_block_indices}

ExpireFrom(im, dm, roots, expire_time, t) ==
  ExpireRemove(im, dm,
               ExpireLoop([arena |-> im.arena, queue |-> SetToSeq(roots),
                           invalid_set |-> roots], t, expire_time))

\* remove_expire_blocks that acts as soon as one node is not ready
remove_expire_blocks_without_threshold(im, dm, expire_time, t) ==
  IF im.not_ready_block_indices = {}
    THEN [inner |-> im, data_man |-> dm, acted |-> FALSE,
          before_removal |-> im.arena]
    ELSE ExpireFrom(im, dm, ExpireRoots(im), expire_time, t)

\* The result has the fields inner, data_man, acted and before_removal.
remove_expire_blocks(im, dm, expire_time, t) ==
  IF Cardinality(im.not_ready_block_indices) * 10 <= Cardinality(DOMAIN im.arena)
    THEN [inner |-> im, data_man |-> dm, acted |-> FALSE,
          before_removal |-> im.arena]
    ELSE ExpireFrom(im, dm, ExpireRoots(im), expire_time, t)

(***************************************************************************)
(* MinLinkCutTree (crate link_cut_tree).  A tree maps each of its nodes to *)
(* the node it is linked under and to its value.                           *)
(***************************************************************************)
make_tree(tree, v) == ArenaPut(tree, v, [parent |-> NULL, value |-> 0])

link(tree, p, v) == [tree EXCEPT ![v].parent = p]

set(tree, v, x) == [tree EXCEPT ![v].value = x]

get(tree, v) == tree[v].value

\* the nodes on the path from the root to v
RECURSIVE PathToRoot(_, _)
PathToRoot(tree, v) ==
  IF v = NULL THEN {} ELSE {v} \cup PathToRoot(tree, tree[v].parent)

AddOn(tree, nodes, delta) ==
  Table([x \in DOMAIN tree |-> IF x \in nodes THEN [tree[x] EXCEPT !.value = @ + delta]
                         ELSE tree[x]])

\* adds delta to the value of every node on the path from the root to v
path_apply(tree, v, delta) == AddOn(tree, PathToRoot(tree, v), delta)

MinOf(S) == CHOOSE x \in S : \A y \in S : x <= y

MaxOf(S) == CHOOSE x \in S : \A y \in S : x >= y

\* the least value on the path from the root to v
path_aggregate(tree, v) == MinOf({tree[x].value : x \in PathToRoot(tree, v)})

ChildrenOf(tree, nodes) == {x \in DOMAIN tree : tree[x].parent \in nodes}

\* adds delta to the value of every node that is the child of a node on the
\* path from the root to v
catepillar_apply(tree, v, delta) ==
  AddOn(tree, ChildrenOf(tree, PathToRoot(tree, v)), delta)

Depth(tree, v) == Cardinality(PathToRoot(tree, v)) - 1

\* the ancestor of v (v included) at the given depth
ancestor_at(tree, v, height) ==
  CHOOSE a \in PathToRoot(tree, v) : Depth(tree, a) = height

DeepestOf(tree, nodes) ==
  CHOOSE a \in nodes : \A b \in nodes : Depth(tree, a) >= Depth(tree, b)

lca(tree, a, b) == DeepestOf(tree, PathToRoot(tree, a) \cap PathToRoot(tree, b))

(***************************************************************************)
(* ConsensusGraphInner                                                     *)
(***************************************************************************)
\* the epoch length of an era
ERA_EPOCH_COUNT == 10000
\* the number of epochs the state a header commits to is deferred by
DEFERRED_STATE_EPOCH_COUNT == 5

\* inner_conf (ConsensusInnerConfig) of the node
adaptive_weight_alpha_num == 2
adaptive_weight_alpha_den == 3
adaptive_weight_beta == 1
heavy_block_difficulty_ratio == 2
\* conf.bench_mode of the ConsensusGraph
bench_mode == FALSE

ConsensusGraphNodeData(epoch_number, height, sequence_number) ==
  [epoch_number |-> epoch_number, partial_invalid |-> FALSE,
   blockset_in_own_view_of_epoch |-> {}, ordered_epoch_blocks |-> <<>>,
   min_epoch_in_other_views |-> height, max_epoch_in_other_views |-> height,
   sequence_number |-> sequence_number]

get_next_sequence_number(ci) ==
  [ci EXCEPT !.sequence_number_of_block_entrance = @ + 1]

is_heavier(a, b) == (a[1] > b[1]) \/ ((a[1] = b[1]) /\ (a[2] > b[2]))

get_era_height(parent_height, offset) ==
  IF parent_height > offset
    THEN ((parent_height - offset) \div ERA_EPOCH_COUNT) * ERA_EPOCH_COUNT
    ELSE 0

get_era_block_with_parent(ci, parent, offset) ==
  ancestor_at(ci.weight_tree, parent, get_era_height(ci.arena[parent].height, offset))

\* the weight of a block: 0 for a partially invalid block unless inclusive
block_weight(arena, me, inclusive) ==
  IF arena[me].data.partial_invalid /\ ~inclusive THEN 0
  ELSE IF arena[me].adaptive
    THEN IF arena[me].is_heavy
           THEN heavy_block_difficulty_ratio * arena[me].difficulty
           ELSE 0
    ELSE arena[me].difficulty

RECURSIVE SumOver(_, _)
\* the sum of f over the set S
SumOver(f, S) ==
  IF S = {} THEN 0
  ELSE LET x == MinOf(S) IN f[x] + SumOver(f, S \ {x})

\* the blocks of blockset_in_own_epoch that total_weight_in_own_epoch counts
InEraOf(ci, blockset_in_own_epoch, gen_index) ==
  IF gen_index = ci.genesis_block_index THEN blockset_in_own_epoch
  ELSE {index \in blockset_in_own_epoch :
          /\ ci.arena[index].height >= ci.arena[gen_index].height
          /\ ancestor_at(ci.weight_tree, index, ci.arena[gen_index].height) = gen_index}

\* genesis_opt is NULL for None
total_weight_in_own_epoch(ci, blockset_in_own_epoch, inclusive, genesis_opt) ==
  SumOver([index \in blockset_in_own_epoch |-> block_weight(ci.arena, index, inclusive)],
          InEraOf(ci, blockset_in_own_epoch,
                  IF genesis_opt = NULL THEN ci.genesis_block_index ELSE genesis_opt))

\* the parent and the referees of a node of the arena
Preds(arena, x) ==
  (IF arena[x].parent = NULL THEN {} ELSE {arena[x].parent}) \cup Range(arena[x].referees)

\* the loop of topological_sort without the final reverse()
RECURSIVE topological_sort_from_not_reversed(_, _, _)
topological_sort_from_not_reversed(arena, remaining, ordered) ==
  IF remaining = {} THEN ordered
  ELSE LET me == MaxOf({x \in remaining : \A y \in remaining : x \notin Preds(arena, y)})
       IN topological_sort_from_not_reversed(arena, remaining \ {me}, Append(ordered, me))

\* topological_sort: the candidates are the blocks that no block still to be
\* emitted names as parent or referee; the one with the greatest hash (a
\* node's index is its hash) is emitted next, and the emitted sequence is
\* reversed at the end
RECURSIVE topological_sort_from(_, _, _)
topological_sort_from(arena, remaining, ordered) ==
  IF remaining = {} THEN ordered
  ELSE LET me == MaxOf({x \in remaining : \A y \in remaining : x \notin Preds(arena, y)})
       IN topological_sort_from(arena, remaining \ {me}, <<me>> \o ordered)

topological_sort(arena, index_set) == topological_sort_from(arena, index_set, <<>>)

\* the walk, were it to stop at the earlier pivots only and not to look into
\* blockset_in_own_view_of_epoch
RECURSIVE InOldEpoch_pivot_blocks_only(_, _, _)
InOldEpoch_pivot_blocks_only(arena, index, parent) ==
  IF arena[parent].height < arena[index].data.min_epoch_in_other_views
     \/ arena[index].data.sequence_number > arena[parent].data.sequence_number
    THEN FALSE
  ELSE IF parent = index THEN TRUE
  ELSE InOldEpoch_pivot_blocks_only(arena, index, arena[parent].parent)

\* the loop of collect_blockset_in_own_view_of_epoch that walks the ancestors
\* of the pivot: TRUE when index belongs to the epoch of an earlier pivot
RECURSIVE InOldEpoch(_, _, _)
InOldEpoch(arena, index, parent) ==
  IF arena[parent].height < arena[index].data.min_epoch_in_other_views
     \/ arena[index].data.sequence_number > arena[parent].data.sequence_number
    THEN FALSE
  ELSE IF parent = index \/ index \in arena[parent].data.blockset_in_own_view_of_epoch
    THEN TRUE
  ELSE InOldEpoch(arena, index, arena[parent].parent)

\* where that walk starts for index
WalkStart(ci, pivot, index) ==
  LET parent == ci.arena[pivot].parent
  IN IF ci.arena[parent].height > ci.arena[index].data.max_epoch_in_other_views
       THEN ancestor_at(ci.weight_tree, parent,
                        ci.arena[index].data.max_epoch_in_other_views)
       ELSE parent

\* pushes the elements of cands that are not visited yet; st has the fields
\* queue and visited
RECURSIVE PushUnvisited(_, _)
PushUnvisited(st, cands) ==
  IF cands = <<>> THEN st
  ELSE IF Head(cands) \in st.visited THEN PushUnvisited(st, Tail(cands))
  ELSE PushUnvisited([queue |-> Append(st.queue, Head(cands)),
                      visited |-> st.visited \cup {Head(cands)}], Tail(cands))

\* "while let Some(index) = queue.pop_front()" of
\* collect_blockset_in_own_view_of_epoch
RECURSIVE CollectLoop(_, _, _)
CollectLoop(ci, pivot, st) ==
  IF st.queue = <<>> THEN ci
  ELSE
    LET index == Head(st.queue)
        st0 == [st EXCEPT !.queue = Tail(@)]
    IN IF InOldEpoch(ci.arena, index, WalkStart(ci, pivot, index))
         THEN CollectLoop(ci, pivot, st0)
         ELSE CollectLoop(
                [ci EXCEPT
                   !.arena[index].data.min_epoch_in_other_views =
                      Min2(@, ci.arena[pivot].height),
                   !.arena[index].data.max_epoch_in_other_views =
                      Max2(@, ci.arena[pivot].height),
                   !.arena[pivot].data.blockset_in_own_view_of_epoch = @ \cup {index}],
                pivot,
                PushUnvisited(st0, <<ci.arena[index].parent>> \o ci.arena[index].referees))

SortEpoch(ci, pivot) ==
  [ci EXCEPT !.arena[pivot].data.ordered_epoch_blocks =
     Append(topological_sort(ci.arena, ci.arena[pivot].data.blockset_in_own_view_of_epoch),
            pivot)]

collect_blockset_in_own_view_of_epoch(ci, pivot) ==
  SortEpoch(CollectLoop(ci, pivot,
                        [queue |-> ci.arena[pivot].referees,
                         visited |-> Range(ci.arena[pivot].referees)]),
            pivot)

\* the node insert puts in the arena for the block of header, with sequence
\* number sn
ConsensusGraphNode(header, sn) ==
  [hash |-> header.hash, height |-> header.height,
   is_heavy |-> header.pow_quality >= heavy_block_difficulty_ratio * header.difficulty,
   difficulty |-> header.difficulty, past_weight |-> 0, past_era_weight |-> 0,
   pow_quality |-> header.pow_quality, stable |-> TRUE, adaptive |-> header.adaptive,
   parent |-> IF header.parent_hash # H256_DEFAULT THEN header.parent_hash ELSE NULL,
   last_pivot_in_past |-> 0, children |-> <<>>, referees |-> header.referee_hashes,
   referrers |-> <<>>,
   data |-> ConsensusGraphNodeData(NULL, header.height, sn)]

\* insert up to the call of collect_blockset_in_own_view_of_epoch: the new
\* node, the links from its parent and referees, terminal_hashes
InsertNode(ci, header, sn) ==
  LET me == header.hash
      node == ConsensusGraphNode(header, sn)
      arena0 == ArenaPut(ci.arena, me, node)
  IN [ci EXCEPT
        !.arena = Table([x \in DOMAIN arena0 |->
                     LET n0 == arena0[x]
                         n1 == IF x = node.parent THEN [n0 EXCEPT !.children = Append(@, me)]
                               ELSE n0
                     IN IF x \in Range(node.referees)
                          THEN [n1 EXCEPT !.referrers = Append(@, me)] ELSE n1]),
        !.terminal_hashes = (@ \ (Range(node.referees) \cup {node.parent})) \cup {me}]

\* the end of insert: past_weight and past_era_weight of the new node
\* InsertWeights without the weight of the blocks of the own epoch
InsertWeights_parent_only(ci, me) ==
  LET parent == ci.arena[me].parent
      era_genesis == get_era_block_with_parent(ci, parent, 0)
  IN IF parent = NULL THEN ci
     ELSE [ci EXCEPT
             !.arena[me].past_weight =
                ci.arena[parent].past_weight + block_weight(ci.arena, parent, FALSE),
             !.arena[me].past_era_weight =
                (IF parent # era_genesis THEN ci.arena[parent].past_era_weight ELSE 0)
                + block_weight(ci.arena, parent, FALSE)]

\* InsertWeights, were the genesis block to add nothing to the past_weight
\* of its children
InsertWeights_skipping_genesis(ci, me) ==
  LET parent == ci.arena[me].parent
      blockset == ci.arena[me].data.blockset_in_own_view_of_epoch
      era_genesis == get_era_block_with_parent(ci, parent, 0)
  IN IF parent = NULL THEN ci
     ELSE [ci EXCEPT
             !.arena[me].past_weight =
                ci.arena[parent].past_weight
                + (IF ci.arena[parent].parent = NULL THEN 0
                   ELSE block_weight(ci.arena, parent, FALSE))
                + total_weight_in_own_epoch(ci, blockset, FALSE, NULL),
             !.arena[me].past_era_weight =
                (IF parent # era_genesis THEN ci.arena[parent].past_era_weight ELSE 0)
                + block_weight(ci.arena, parent, FALSE)
                + total_weight_in_own_epoch(ci, blockset, FALSE, era_genesis)]

InsertWeights(ci, me) ==
  LET parent == ci.arena[me].parent
      blockset == ci.arena[me].data.blockset_in_own_view_of_epoch
      era_genesis == get_era_block_with_parent(ci, parent, 0)
  IN IF parent = NULL THEN ci
     ELSE [ci EXCEPT
             !.arena[me].past_weight =
                ci.arena[parent].past_weight + block_weight(ci.arena, parent, FALSE)
                + total_weight_in_own_epoch(ci, blockset, FALSE, NULL),
             !.arena[me].past_era_weight =
                (IF parent # era_genesis THEN ci.arena[parent].past_era_weight ELSE 0)
                + block_weight(ci.arena, parent, FALSE)
                + total_weight_in_own_epoch(ci, blockset, FALSE, era_genesis)]

\* ConsensusGraphInner::insert; the caller has checked that the parent and
\* the referees are in the arena (the unwrap()s of insert)
consensus_insert(ci, header) ==
  InsertWeights(
    collect_blockset_in_own_view_of_epoch(
      InsertNode(get_next_sequence_number(ci), header,
                 ci.sequence_number_of_block_entrance),
      header.hash),
    header.hash)

\* the unwrap()s of insert succeed
CanInsert(ci, header) ==
  /\ header.parent_hash = H256_DEFAULT \/ header.parent_hash \in DOMAIN ci.arena
  /\ Range(header.referee_hashes) \subseteq DOMAIN ci.arena

\* the six link-cut trees after with_genesis_block
GenesisTrees(ci, g, difficulty) ==
  [ci EXCEPT
     !.genesis_block_index = g,
     !.weight_tree = path_apply(make_tree(@, g), g, difficulty),
     !.inclusive_weight_tree = path_apply(make_tree(@, g), g, difficulty),
     !.stable_weight_tree = path_apply(make_tree(@, g), g, difficulty),
     !.stable_tree = set(make_tree(@, g), g, 0),
     !.adaptive_tree = set(make_tree(@, g), g, 0),
     !.inclusive_adaptive_tree = set(make_tree(@, g), g, 0),
     !.arena[g].data.epoch_number = 0,
     !.pivot_chain = Append(@, g),
     !.pivot_chain_metadata = Append(@, {g}),
     !.anticone_cache = ArenaPut(@, g, {})]

\* ConsensusGraphInner::with_genesis_block
consensus_with_genesis_block(header) ==
  GenesisTrees(
    consensus_insert(
      [arena |-> <<>>, pivot_chain |-> <<>>, pivot_chain_metadata |-> <<>>,
       terminal_hashes |-> {}, genesis_block_index |-> NULL,
       weight_tree |-> <<>>, inclusive_weight_tree |-> <<>>,
       stable_weight_tree |-> <<>>, stable_tree |-> <<>>, adaptive_tree |-> <<>>,
       inclusive_adaptive_tree |-> <<>>,
       current_difficulty |-> initial_difficulty,
       anticone_cache |-> <<>>,
       sequence_number_of_block_entrance |-> 0,
       executor |-> <<>>],
      header),
    header.hash, header.difficulty)

\* the element at position i of a vector indexed from 0
At(vec, i) == vec[i + 1]

\* the nodes reachable from the nodes of frontier through children and
\* referrers
RECURSIVE DescendantsOf(_, _, _)
DescendantsOf(arena, frontier, seen) ==
  IF frontier = {} THEN seen
  ELSE LET next == UNION {Range(arena[x].children) \cup Range(arena[x].referrers)
                            : x \in frontier} \ seen
       IN DescendantsOf(arena, next, seen \cup next)

\* the nodes reachable from the nodes of frontier through parent and
\* referees without leaving the set allowed
RECURSIVE PastWithin(_, _, _, _)
PastWithin(arena, frontier, seen, allowed) ==
  IF frontier = {} THEN seen
  ELSE LET next == (UNION {Preds(arena, x) : x \in frontier} \cap allowed) \ seen
       IN PastWithin(arena, next, seen \cup next, allowed)

\* AnticoneFrom without the anticone of the parent
AnticoneFrom_futures_only(arena, me, parent_anticone, parent_futures) ==
  parent_futures \ PastWithin(arena, {me}, {}, parent_futures)

\* the anticone of me from the anticone of its parent, which the
\* anticone_cache holds for every block of the arena (the cache evicts by
\* age, and no block of a run this short is old enough)
AnticoneFrom(arena, me, parent_anticone, parent_futures) ==
  (parent_futures \cup parent_anticone)
    \ PastWithin(arena, {me}, {}, parent_anticone \cup parent_futures)

anticone_of(ci, me) ==
  AnticoneFrom(ci.arena, me, ci.anticone_cache[ci.arena[me].parent],
               DescendantsOf(ci.arena, {ci.arena[me].parent}, {})
                 \ {ci.arena[me].parent, me})

\* the greatest last_pivot_in_past among the parent and the referees of me
LastPivotOfPreds(arena, me) ==
  MaxOf({arena[x].last_pivot_in_past : x \in Preds(arena, me)})

\* "epoch_number > last_in_pivot" on usize, where the epoch_number of a block
\* outside every epoch is NULL = usize::MAX
EpochAfter(epoch_number, last_in_pivot) ==
  epoch_number = NULL \/ epoch_number > last_in_pivot

\* ConsensusGraphInner::compute_anticone_bruteforce: the blocks later than
\* the last pivot block in the past of me that the walk from me through
\* parent and referees does not visit
compute_anticone_bruteforce(ci, me) ==
  LET last_in_pivot == LastPivotOfPreds(ci.arena, me)
      later == {i \in DOMAIN ci.arena :
                  EpochAfter(ci.arena[i].data.epoch_number, last_in_pivot)}
  IN later \ ({me} \cup PastWithin(ci.arena, {me}, {}, later))

\* the blocks of the anticone whose parent is not in the anticone
anticone_barrier_of(arena, anticone) ==
  {index \in anticone : arena[index].parent \notin anticone}

\* AnticoneCache::update (module anticone_cache): the cache maps a block to
\* the set of the blocks that are in its anticone, so the new block me is
\* entered under itself and into the set of every block of its anticone
anticone_cache_update(cache, me, anticone) ==
  ArenaPut(Table([x \in DOMAIN cache |->
                    IF x \in anticone THEN cache[x] \cup {me} ELSE cache[x]]),
           me, anticone)

\* ConsensusGraphInner::compute_anticone: the state with the anticone cached
\* under me; the barrier it returns is
\* anticone_barrier_of(arena, anticone_cache[me])
compute_anticone(ci, me) ==
  [ci EXCEPT !.anticone_cache = anticone_cache_update(@, me, anticone_of(ci, me))]

LinkUnder(tree, parent, me, value) == set(link(make_tree(tree, me), parent, me), me, value)

update_lcts_initial(ci, me) ==
  LET parent == ci.arena[me].parent
  IN [ci EXCEPT
        !.weight_tree = LinkUnder(@, parent, me, 0),
        !.inclusive_weight_tree = LinkUnder(@, parent, me, 0),
        !.stable_weight_tree = LinkUnder(@, parent, me, 0),
        !.stable_tree =
           LinkUnder(@, parent, me,
                     adaptive_weight_alpha_num
                       * (block_weight(ci.arena, parent, FALSE)
                          + ci.arena[parent].past_era_weight)),
        !.adaptive_tree =
           LinkUnder(@, parent, me,
                     (-get(ci.weight_tree, parent)) * adaptive_weight_alpha_num),
        !.inclusive_adaptive_tree =
           LinkUnder(@, parent, me,
                     (-get(ci.inclusive_weight_tree, parent)) * adaptive_weight_alpha_num)]

\* update_lcts_finalize for a block of the given weights
FinalizeWith(ci, me, parent, stable, weight, inclusive_weight) ==
  [ci EXCEPT
     !.weight_tree = path_apply(@, me, weight),
     !.inclusive_weight_tree = path_apply(@, me, inclusive_weight),
     !.stable_weight_tree = IF stable THEN path_apply(@, me, weight) ELSE @,
     !.stable_tree = path_apply(@, me, adaptive_weight_alpha_den * weight),
     !.adaptive_tree =
        catepillar_apply(
          IF stable THEN path_apply(@, me, adaptive_weight_alpha_den * weight) ELSE @,
          parent, (-weight) * adaptive_weight_alpha_num),
     !.inclusive_adaptive_tree =
        catepillar_apply(
          path_apply(@, me, adaptive_weight_alpha_den * inclusive_weight),
          parent, (-inclusive_weight) * adaptive_weight_alpha_num)]

\* update_lcts_finalize, were every block to weigh its difficulty
update_lcts_finalize_by_difficulty(ci, me, stable) ==
  FinalizeWith(ci, me, ci.arena[me].parent, stable,
               ci.arena[me].difficulty, ci.arena[me].difficulty)

update_lcts_finalize(ci, me, stable) ==
  FinalizeWith(ci, me, ci.arena[me].parent, stable,
               block_weight(ci.arena, me, FALSE), block_weight(ci.arena, me, TRUE))

\* what adaptive_weight_impl takes out of the trees for one block of the
\* anticone barrier: delta, inclusive_delta and stable_delta are the values
\* the block has in weight_tree, inclusive_weight_tree and stable_weight_tree
RemoveOne(ci, index, parent, delta, inclusive_delta, stable_delta) ==
  [ci EXCEPT
     !.weight_tree = path_apply(@, index, -delta),
     !.stable_tree = path_apply(@, index, (-delta) * adaptive_weight_alpha_den),
     !.adaptive_tree =
        path_apply(catepillar_apply(@, parent, delta * adaptive_weight_alpha_num),
                   index, (-stable_delta) * adaptive_weight_alpha_den),
     !.inclusive_adaptive_tree =
        path_apply(catepillar_apply(@, parent, inclusive_delta * adaptive_weight_alpha_num),
                   index, (-inclusive_delta) * adaptive_weight_alpha_den)]

\* the trees without the weight of the anticone; orig is the state the deltas
\* are read from
RECURSIVE RemoveAnticone(_, _, _)
RemoveAnticone(ci, orig, anticone_barrier) ==
  IF anticone_barrier = {} THEN ci
  ELSE LET index == MinOf(anticone_barrier)
       IN RemoveAnticone(
            RemoveOne(ci, index, orig.arena[index].parent,
                      get(orig.weight_tree, index),
                      get(orig.inclusive_weight_tree, index),
                      get(orig.stable_weight_tree, index)),
            orig, anticone_barrier \ {index})

\* "while low <= high": above[mid] is the condition w > adjusted_beta at mid
RECURSIVE BinarySearch(_, _, _, _)
BinarySearch(low, high, best, above) ==
  IF low > high THEN best
  ELSE LET mid == (low + high) \div 2
       IN IF above[mid] THEN BinarySearch(mid + 1, high, mid, above)
          ELSE BinarySearch(low, mid - 1, best, above)

\* gp of the three searches: the parent of the ancestor of parent at mid
GrandparentAt(tree, arena, parent, mid) == arena[ancestor_at(tree, parent, mid)].parent

\* the inter-era part of adaptive_weight_impl
AdaptiveInterEra(ci, parent, two_era_height, best) ==
  /\ best # two_era_height
  /\ path_aggregate(ci.inclusive_adaptive_tree,
                    ancestor_at(ci.inclusive_weight_tree, parent, best)) < 0

AdaptiveWeight5(ci, parent, era_height, two_era_height, adjusted_beta, stable) ==
  [stable |-> stable,
   adaptive |->
     AdaptiveInterEra(
       ci, parent, two_era_height,
       BinarySearch(two_era_height + 1, era_height, two_era_height,
                    [mid \in (two_era_height + 1)..era_height |->
                       get(ci.inclusive_weight_tree,
                           GrandparentAt(ci.inclusive_weight_tree, ci.arena, parent, mid))
                         > adjusted_beta]))]

\* the intra-era part for a block that is not stable
AdaptiveWeight4(ci, parent_0, era_height, two_era_height, adjusted_beta, best) ==
  IF best # era_height
       /\ path_aggregate(ci.adaptive_tree, ancestor_at(ci.weight_tree, parent_0, best)) < 0
    THEN [stable |-> FALSE, adaptive |-> TRUE]
    ELSE AdaptiveWeight5(ci,
                         IF best # era_height
                           THEN ancestor_at(ci.weight_tree, parent_0, best) ELSE parent_0,
                         era_height, two_era_height, adjusted_beta, FALSE)

AdaptiveWeight3(ci, parent_0, parent, era_height, two_era_height, adjusted_beta, stable) ==
  IF stable
    THEN AdaptiveWeight5(ci, parent, era_height, two_era_height, adjusted_beta, TRUE)
    ELSE AdaptiveWeight4(
           ci, parent_0, era_height, two_era_height, adjusted_beta,
           BinarySearch(era_height + 1, ci.arena[parent_0].height, era_height,
                        [mid \in (era_height + 1)..ci.arena[parent_0].height |->
                           get(ci.weight_tree,
                               GrandparentAt(ci.weight_tree, ci.arena, parent_0, mid))
                             > adjusted_beta]))

\* the stability decision once the first search has answered best
AdaptiveWeight2(ci, parent_0, era_height, two_era_height, adjusted_beta, total_weight, best) ==
  IF best # era_height
    THEN AdaptiveWeight3(
           ci, parent_0, ancestor_at(ci.weight_tree, parent_0, best),
           era_height, two_era_height, adjusted_beta,
           ~(path_aggregate(ci.stable_tree, ancestor_at(ci.weight_tree, parent_0, best))
               < total_weight * adaptive_weight_alpha_num))
    ELSE AdaptiveWeight3(ci, parent_0, parent_0, era_height, two_era_height,
                         adjusted_beta, TRUE)

AdaptiveWeight1(ci, parent_0, era_height, two_era_height, adjusted_beta, total_weight) ==
  AdaptiveWeight2(
    ci, parent_0, era_height, two_era_height, adjusted_beta, total_weight,
    BinarySearch(era_height + 1, ci.arena[parent_0].height, era_height,
                 [mid \in (era_height + 1)..ci.arena[parent_0].height |->
                    total_weight
                      - ci.arena[GrandparentAt(ci.weight_tree, ci.arena, parent_0, mid)]
                          .past_era_weight
                      - block_weight(ci.arena,
                                     GrandparentAt(ci.weight_tree, ci.arena, parent_0, mid),
                                     FALSE)
                      > adjusted_beta]))

\* adaptive_weight_impl on the trees without the anticone (weight_tuple is
\* None: the barrier stays below ANTICONE_BARRIER_CAP); the result has the
\* fields stable and adaptive.  The function leaves the trees as it found
\* them.
adaptive_weight_impl(ci, parent_0, difficulty) ==
  AdaptiveWeight1(
    ci, parent_0,
    get_era_height(ci.arena[parent_0].height, 0),
    get_era_height(ci.arena[parent_0].height, ERA_EPOCH_COUNT),
    adaptive_weight_beta * difficulty,
    get(ci.weight_tree,
        ancestor_at(ci.inclusive_weight_tree, parent_0,
                    get_era_height(ci.arena[parent_0].height, 0))))

adaptive_weight(ci, me, anticone_barrier) ==
  adaptive_weight_impl(RemoveAnticone(ci, ci, anticone_barrier),
                       ci.arena[me].parent, ci.arena[me].difficulty)

\* weight_tree without the weight of the anticone
RECURSIVE RemoveAnticoneWeight(_, _, _)
RemoveAnticoneWeight(tree, orig, anticone_barrier) ==
  IF anticone_barrier = {} THEN tree
  ELSE LET index == MinOf(anticone_barrier)
       IN RemoveAnticoneWeight(path_apply(tree, index, -get(orig, index)), orig,
                               anticone_barrier \ {index})

\* ParentBeats without the comparison of the subtree weights
ParentBeats_ignoring_weights(tree, arena, parent, era_height, index, fork_point) ==
  \/ arena[index].data.partial_invalid
  \/ arena[fork_point].height < era_height
  \/ fork_point # parent

\* the pivot selection decision of check_correct_parent for one block of the
\* epoch of me, on weight_tree without the anticone; fork_point is the lca of
\* the block and the parent
ParentBeats(tree, arena, parent, era_height, index, fork_point) ==
  \/ arena[index].data.partial_invalid
  \/ arena[fork_point].height < era_height
  \/ /\ fork_point # parent
     /\ ~is_heavier(
           <<get(tree, ancestor_at(tree, index, arena[fork_point].height + 1)),
             arena[ancestor_at(tree, index, arena[fork_point].height + 1)].hash>>,
           <<get(tree, ancestor_at(tree, parent, arena[fork_point].height + 1)),
             arena[ancestor_at(tree, parent, arena[fork_point].height + 1)].hash>>)

CorrectParentOn(tree, arena, me, parent) ==
  \A index \in arena[me].data.blockset_in_own_view_of_epoch :
    ParentBeats(tree, arena, parent, get_era_height(arena[parent].height, 0), index,
                lca(tree, index, parent))

check_correct_parent(ci, me, anticone_barrier) ==
  CorrectParentOn(RemoveAnticoneWeight(ci.weight_tree, ci.weight_tree, anticone_barrier),
                  ci.arena, me, ci.arena[me].parent)

\* RestoreOne without the stable_weight_delta loop
RestoreOne_without_stable_delta(ci, index, parent, delta, inclusive_delta, stable_delta) ==
  [ci EXCEPT
     !.weight_tree = path_apply(@, index, delta),
     !.stable_tree = path_apply(@, index, delta * adaptive_weight_alpha_den),
     !.adaptive_tree = catepillar_apply(@, parent, (-delta) * adaptive_weight_alpha_num),
     !.inclusive_adaptive_tree =
        path_apply(catepillar_apply(@, parent, (-inclusive_delta) * adaptive_weight_alpha_num),
                   index, inclusive_delta * adaptive_weight_alpha_den)]

\* what adaptive_weight_impl puts back into the trees for one block of the
\* anticone barrier before it returns
RestoreOne(ci, index, parent, delta, inclusive_delta, stable_delta) ==
  [ci EXCEPT
     !.weight_tree = path_apply(@, index, delta),
     !.stable_tree = path_apply(@, index, delta * adaptive_weight_alpha_den),
     !.adaptive_tree =
        path_apply(catepillar_apply(@, parent, (-delta) * adaptive_weight_alpha_num),
                   index, stable_delta * adaptive_weight_alpha_den),
     !.inclusive_adaptive_tree =
        path_apply(catepillar_apply(@, parent, (-inclusive_delta) * adaptive_weight_alpha_num),
                   index, inclusive_delta * adaptive_weight_alpha_den)]

\* the trees with the weight of the anticone put back; orig is the state
\* the deltas were read from before anything was taken out
RECURSIVE RestoreAnticone(_, _, _)
RestoreAnticone(ci, orig, anticone_barrier) ==
  IF anticone_barrier = {} THEN ci
  ELSE LET index == MinOf(anticone_barrier)
       IN RestoreAnticone(
            RestoreOne(ci, index, orig.arena[index].parent,
                       get(orig.weight_tree, index),
                       get(orig.inclusive_weight_tree, index),
                       get(orig.stable_weight_tree, index)),
            orig, anticone_barrier \ {index})

\* the ConsensusGraphInner adaptive_weight leaves behind: the queries between
\* the removal and the restoration read the trees only
adaptive_weight_leaves(ci, me, anticone_barrier) ==
  RestoreAnticone(RemoveAnticone(ci, ci, anticone_barrier), ci, anticone_barrier)

\* weight_tree with the weight of the anticone put back
RECURSIVE RestoreAnticoneWeight(_, _, _)
RestoreAnticoneWeight(tree, orig, anticone_barrier) ==
  IF anticone_barrier = {} THEN tree
  ELSE LET index == MinOf(anticone_barrier)
       IN RestoreAnticoneWeight(path_apply(tree, index, get(orig, index)), orig,
                                anticone_barrier \ {index})

\* the weight_tree check_correct_parent leaves behind: the loop over the
\* epoch of me reads the tree only, and a break leaves the loop for the
\* restoration
check_correct_parent_leaves(ci, me, anticone_barrier) ==
  RestoreAnticoneWeight(
    RemoveAnticoneWeight(ci.weight_tree, ci.weight_tree, anticone_barrier),
    ci.weight_tree, anticone_barrier)

\* pow::target_difficulty for the period that ends at the block cur
target_difficulty(cur) == HeaderOf(cur).target

expected_difficulty(ci, parent_index) ==
  LET parent_epoch == ci.arena[parent_index].height
      last_period_upper == (parent_epoch \div difficulty_adjustment_epoch_period)
                             * difficulty_adjustment_epoch_period
  IN IF parent_epoch < difficulty_adjustment_epoch_period THEN initial_difficulty
     ELSE IF last_period_upper # parent_epoch THEN ci.arena[parent_index].difficulty
     ELSE target_difficulty(parent_index)

adjust_difficulty(ci, new_best_index) ==
  LET epoch == ci.arena[new_best_index].height
  IN [ci EXCEPT
        !.current_difficulty =
           IF epoch = 0 THEN initial_difficulty
           ELSE IF epoch = (epoch \div difficulty_adjustment_epoch_period)
                             * difficulty_adjustment_epoch_period
             THEN target_difficulty(new_best_index)
           ELSE ci.arena[new_best_index].difficulty]

\* PreliminaryBound without total_weight in the lower bound
PreliminaryBound_without_total(ci, me, a, s, last_pivot) ==
  LET lower_bound_s_weight ==
        ci.arena[At(ci.pivot_chain, last_pivot)].past_weight + get(ci.weight_tree, s)
  IN IF lower_bound_s_weight < 0 THEN TRUE
     ELSE get(ci.weight_tree, a) + block_weight(ci.arena, me, FALSE)
            >= lower_bound_s_weight

\* preliminary_check_validity once the fork point is known to lie on the
\* pivot chain: a is the ancestor of me and s the pivot block at fork_at
PreliminaryBound(ci, me, a, s, last_pivot) ==
  LET lower_bound_s_weight ==
        ci.arena[At(ci.pivot_chain, last_pivot)].past_weight
        + get(ci.weight_tree, s) - get(ci.weight_tree, ci.genesis_block_index)
  IN IF lower_bound_s_weight < 0 THEN TRUE
     ELSE get(ci.weight_tree, a) + block_weight(ci.arena, me, FALSE)
            >= lower_bound_s_weight

PreliminaryAt(ci, me, fork_at) ==
  IF fork_at >= Len(ci.pivot_chain) THEN TRUE
  ELSE PreliminaryBound(ci, me, ancestor_at(ci.weight_tree, me, fork_at),
                        At(ci.pivot_chain, fork_at), LastPivotOfPreds(ci.arena, me))

preliminary_check_validity(ci, me) ==
  IF ci.pivot_chain[Len(ci.pivot_chain)] = ci.arena[me].parent THEN TRUE
  ELSE PreliminaryAt(
         ci, me,
         ci.arena[lca(ci.weight_tree, ci.pivot_chain[Len(ci.pivot_chain)], me)].height + 1)

\* check_block_full_validity with its test of the parent's flag kept only
\* for a block below the last pivot block
check_block_full_validity_parent_test_below_tip_only(ci, new, header, adaptive, anticone_barrier) ==
  /\ lca(ci.weight_tree, ci.pivot_chain[Len(ci.pivot_chain)], new)
         = ci.pivot_chain[Len(ci.pivot_chain)]
       => ~ci.arena[ci.arena[new].parent].data.partial_invalid
  /\ check_correct_parent(ci, new, anticone_barrier)
  /\ ci.arena[new].difficulty = expected_difficulty(ci, ci.arena[new].parent)
  /\ bench_mode \/ ci.arena[new].adaptive = adaptive
  /\ header.deferred_ok

\* header.deferred_ok stands for the comparison of the deferred state root
\* and the deferred receipts root of the header with the roots of the
\* deferred epoch (of the genesis block below DEFERRED_STATE_EPOCH_COUNT)
check_block_full_validity(ci, new, header, adaptive, anticone_barrier) ==
  /\ ~ci.arena[ci.arena[new].parent].data.partial_invalid
  /\ check_correct_parent(ci, new, anticone_barrier)
  /\ ci.arena[new].difficulty = expected_difficulty(ci, ci.arena[new].parent)
  /\ bench_mode \/ ci.arena[new].adaptive = adaptive
  /\ header.deferred_ok

\* the child of u that is heaviest under is_heavier, NULL if u has none
HeaviestChild(ci, u) ==
  IF ci.arena[u].children = <<>> THEN NULL
  ELSE CHOOSE c \in Range(ci.arena[u].children) :
         \A d \in Range(ci.arena[u].children) \ {c} :
           is_heavier(<<get(ci.weight_tree, c), ci.arena[c].hash>>,
                      <<get(ci.weight_tree, d), ci.arena[d].hash>>)

\* "loop { pivot_chain.push(u); ... u = heaviest; }"
RECURSIVE Descend(_, _, _)
Descend(ci, chain, u) ==
  IF u = NULL THEN chain ELSE Descend(ci, Append(chain, u), HeaviestChild(ci, u))

\* the blocks a walk through parents and referees reaches from start without
\* leaving the set allowed, start included if it is allowed
ReachedWithin(arena, start, allowed) ==
  PastWithin(arena, {start} \cap allowed, {start} \cap allowed, allowed)

SetEpochs(ci, blocks, epoch_number) ==
  [ci EXCEPT !.arena = Table([x \in DOMAIN ci.arena |->
                          IF x \in blocks THEN [ci.arena[x] EXCEPT !.data.epoch_number = epoch_number]
                          ELSE ci.arena[x]])]

\* on_new_block, were it not to clear the epochs of the blocks that leave the
\* pivot chain
ClearEpochs_skipped(ci, old_last, fork_at) == ci

\* "if fork_at < old_pivot_chain_len": the epoch numbers of the blocks that
\* leave the pivot chain, and of the blocks of their epochs, are cleared
ClearEpochs(ci, old_last, fork_at) ==
  SetEpochs(ci,
            ReachedWithin(ci.arena, old_last,
                          {x \in DOMAIN ci.arena :
                             /\ ci.arena[x].data.epoch_number # NULL
                             /\ ci.arena[x].data.epoch_number >= fork_at}),
            NULL)

\* "Construct epochs"
RECURSIVE ConstructEpochs(_, _)
ConstructEpochs(ci, pivot_index) ==
  IF pivot_index >= Len(ci.pivot_chain) THEN ci
  ELSE ConstructEpochs(
         SetEpochs(ci,
                   ReachedWithin(ci.arena, At(ci.pivot_chain, pivot_index),
                                 {x \in DOMAIN ci.arena :
                                    ci.arena[x].data.epoch_number = NULL}),
                   pivot_index),
         pivot_index + 1)

\* Vec::resize_with(len, Default::default) of pivot_chain_metadata
ResizeWith(metadata, len) ==
  Table([i \in 1..len |-> IF i <= Len(metadata) THEN metadata[i] ELSE {}])

\* the first loop of recompute_metadata
RECURSIVE ResetPivotMetadata(_, _)
ResetPivotMetadata(ci, i) ==
  IF i >= Len(ci.pivot_chain) THEN ci
  ELSE ResetPivotMetadata(
         [ci EXCEPT !.arena[At(ci.pivot_chain, i)].last_pivot_in_past = i,
                    !.pivot_chain_metadata[i + 1] = {At(ci.pivot_chain, i)}],
         i + 1)

\* the blocks of S in the order of their sequence numbers
RECURSIVE BySequenceNumber(_, _)
BySequenceNumber(arena, S) ==
  IF S = {} THEN <<>>
  ELSE LET x == CHOOSE y \in S :
                  \A z \in S : arena[y].data.sequence_number <= arena[z].data.sequence_number
       IN <<x>> \o BySequenceNumber(arena, S \ {x})

\* the second loop of recompute_metadata: the stack visits a block of
\* to_update after its parent and its referees, which is the order of the
\* sequence numbers; the genesis block (index 0) is left alone
RECURSIVE UpdateLastPivot(_, _)
UpdateLastPivot(ci, order) ==
  IF order = <<>> THEN ci
  ELSE IF Head(order) = ci.genesis_block_index THEN UpdateLastPivot(ci, Tail(order))
  ELSE UpdateLastPivot(
         [ci EXCEPT
            !.arena[Head(order)].last_pivot_in_past = LastPivotOfPreds(ci.arena, Head(order)),
            !.pivot_chain_metadata[LastPivotOfPreds(ci.arena, Head(order)) + 1] =
               @ \cup {Head(order)}],
         Tail(order))

recompute_metadata(ci, start_at, to_update) ==
  UpdateLastPivot(
    ResetPivotMetadata(
      [ci EXCEPT !.pivot_chain_metadata = ResizeWith(@, Len(ci.pivot_chain))],
      start_at),
    BySequenceNumber(ci.arena,
                     to_update \ {At(ci.pivot_chain, i) : i \in start_at..(Len(ci.pivot_chain) - 1)}))

(***************************************************************************)
(* ConsensusGraph::on_new_block.  The result has the fields ci (the        *)
(* ConsensusGraphInner it leaves) and fully_valid.  The field executor of  *)
(* ci is the queue of self.executor: the EpochExecutionTasks enqueued so   *)
(* far, oldest first.                                                      *)
(***************************************************************************)
\* the number of epochs the reward of an epoch is deferred by, and the
\* distance to the epoch that closes its anticone penalty
REWARD_EPOCH_COUNT == 12
ANTICONE_PENALTY_UPPER_EPOCH_COUNT == 10

\* the pivot block whose reward is computed with the epoch at state_at and
\* the pivot block that closes its anticone penalty, NULL when there is none
get_pivot_reward_index(state_at, chain) ==
  IF state_at > REWARD_EPOCH_COUNT
    THEN <<At(chain, state_at - REWARD_EPOCH_COUNT),
           At(chain, state_at - REWARD_EPOCH_COUNT + ANTICONE_PENALTY_UPPER_EPOCH_COUNT)>>
    ELSE NULL

get_epoch_block_hashes(ci, epoch_index) ==
  Table([i \in 1..Len(ci.arena[epoch_index].data.ordered_epoch_blocks) |->
           ci.arena[ci.arena[epoch_index].data.ordered_epoch_blocks[i]].hash])

\* EpochExecutionTask::new(epoch_hash, epoch_block_hashes,
\* reward_execution_info, on_local_pivot, debug_record); the reward info is
\* kept as the pair of pivot blocks it is computed from
EpochExecutionTask(epoch_hash, epoch_block_hashes, reward_info, on_local_pivot) ==
  [epoch_hash |-> epoch_hash, epoch_block_hashes |-> epoch_block_hashes,
   reward_info |-> reward_info, on_local_pivot |-> on_local_pivot]

\* to_state_pos, were the epoch DEFERRED_STATE_EPOCH_COUNT below the length
\* of the pivot chain left to the next call
to_state_pos_of_one_less(ci) ==
  IF Len(ci.pivot_chain) < DEFERRED_STATE_EPOCH_COUNT + 1 THEN 0
  ELSE Len(ci.pivot_chain) - DEFERRED_STATE_EPOCH_COUNT

\* the position up to which the epochs of the pivot chain are executed
to_state_pos_of(ci) ==
  IF Len(ci.pivot_chain) < DEFERRED_STATE_EPOCH_COUNT THEN 0
  ELSE Len(ci.pivot_chain) - DEFERRED_STATE_EPOCH_COUNT + 1

\* state_at, were it the fork point whatever was executed before
state_at_from_fork_always(old_pivot_chain_len, fork_at) == fork_at

\* the first position to execute

state_at_from(old_pivot_chain_len, fork_at) ==
  IF fork_at + DEFERRED_STATE_EPOCH_COUNT > old_pivot_chain_len
    THEN IF old_pivot_chain_len > DEFERRED_STATE_EPOCH_COUNT
           THEN old_pivot_chain_len - DEFERRED_STATE_EPOCH_COUNT + 1
           ELSE 1
    ELSE fork_at

\* "Apply transactions in the determined total order"
RECURSIVE EnqueueEpochs(_, _, _)
EnqueueEpochs(ci, state_at, to_state_pos) ==
  IF state_at >= to_state_pos THEN ci
  ELSE EnqueueEpochs(
         [ci EXCEPT !.executor =
            Append(@, EpochExecutionTask(
                        ci.arena[At(ci.pivot_chain, state_at)].hash,
                        get_epoch_block_hashes(ci, At(ci.pivot_chain, state_at)),
                        get_pivot_reward_index(state_at, ci.pivot_chain),
                        TRUE))],
         state_at + 1, to_state_pos)

\* the end of on_new_block for a fully valid block
OnNewBlockEnqueued(ci) ==
  [ci |-> adjust_difficulty(ci, ci.pivot_chain[Len(ci.pivot_chain)]),
   fully_valid |-> TRUE]

OnNewBlockDone(ci, old_pivot_chain_len, fork_at) ==
  OnNewBlockEnqueued(
    EnqueueEpochs(ci, state_at_from(old_pivot_chain_len, fork_at), to_state_pos_of(ci)))

\* "Now compute last_pivot_in_block and update pivot_metadata"
OnNewBlockMetadata(ci, me, old_pivot_chain_len, fork_at, extend_pivot) ==
  IF extend_pivot
    THEN OnNewBlockDone(
           [ci EXCEPT !.arena[me].last_pivot_in_past = ci.arena[me].height,
                      !.pivot_chain_metadata[ci.arena[me].height + 1] = @ \cup {me}],
           old_pivot_chain_len, fork_at)
    ELSE OnNewBlockDone(
           recompute_metadata(
             ci, fork_at,
             {me} \cup UNION {ci.pivot_chain_metadata[i + 1]
                                : i \in (fork_at - 1)..(old_pivot_chain_len - 1)}),
           old_pivot_chain_len, fork_at)

\* the epochs after the pivot chain was updated; tip is the last block of
\* the old pivot chain
OnNewBlockEpochs(ci, me, tip, old_pivot_chain_len, fork_at, extend_pivot) ==
  OnNewBlockMetadata(
    ConstructEpochs(IF fork_at < old_pivot_chain_len THEN ClearEpochs(ci, tip, fork_at)
                    ELSE ci,
                    fork_at),
    me, old_pivot_chain_len, fork_at, extend_pivot)

\* on_new_block, were a fork never to replace the pivot chain
OnNewBlockFork_keeping_pivot(ci, me, tip, fork_at, prev, new) ==
  OnNewBlockEpochs(ci, me, tip, Len(ci.pivot_chain), Len(ci.pivot_chain), FALSE)

\* the pivot chain when me does not extend it: prev is the pivot block at
\* fork_at and new the ancestor of me at fork_at
OnNewBlockFork(ci, me, tip, fork_at, prev, new) ==
  IF is_heavier(<<get(ci.weight_tree, new), ci.arena[new].hash>>,
                <<get(ci.weight_tree, prev), ci.arena[prev].hash>>)
    THEN OnNewBlockEpochs(
           [ci EXCEPT !.pivot_chain = Descend(ci, SubSeq(ci.pivot_chain, 1, fork_at), new)],
           me, tip, Len(ci.pivot_chain), fork_at, FALSE)
    ELSE OnNewBlockEpochs(ci, me, tip, Len(ci.pivot_chain), Len(ci.pivot_chain), FALSE)

OnNewBlockForkAt(ci, me, tip, fork_at) ==
  OnNewBlockFork(ci, me, tip, fork_at, At(ci.pivot_chain, fork_at),
                 ancestor_at(ci.weight_tree, me, fork_at))

\* "if fully_valid": the pivot chain
OnNewBlockPivot(ci, me, tip) ==
  IF ci.arena[me].parent = tip
    THEN OnNewBlockEpochs(
           [ci EXCEPT !.pivot_chain = Append(@, me),
                      !.pivot_chain_metadata = Append(@, {})],
           me, tip, Len(ci.pivot_chain), Len(ci.pivot_chain), TRUE)
    ELSE OnNewBlockForkAt(ci, me, tip, ci.arena[lca(ci.weight_tree, tip, me)].height + 1)

\* on_new_block once the validity of the block is decided; sa is the answer
\* of adaptive_weight
\* OnNewBlockChecked that writes the flags of me to the parent of me as well
OnNewBlockChecked_flagging_parent(ci, me, sa, fully_valid) ==
  IF fully_valid
    THEN OnNewBlockPivot(
           update_lcts_finalize(
             [ci EXCEPT !.arena[me].stable = sa.stable, !.arena[me].adaptive = sa.adaptive,
                        !.arena[ci.arena[me].parent].stable = sa.stable,
                        !.arena[ci.arena[me].parent].adaptive = sa.adaptive],
             me, sa.stable),
           me, ci.pivot_chain[Len(ci.pivot_chain)])
    ELSE [ci |-> recompute_metadata(
                   [ci EXCEPT !.arena[me].data.partial_invalid = TRUE,
                              !.arena[me].stable = sa.stable,
                              !.arena[me].adaptive = sa.adaptive,
                              !.arena[ci.arena[me].parent].stable = sa.stable,
                              !.arena[ci.arena[me].parent].adaptive = sa.adaptive],
                   Len(ci.pivot_chain) + 1, {me}),
          fully_valid |-> FALSE]

OnNewBlockChecked(ci, me, sa, fully_valid) ==
  IF fully_valid
    THEN OnNewBlockPivot(
           update_lcts_finalize(
             [ci EXCEPT !.arena[me].stable = sa.stable, !.arena[me].adaptive = sa.adaptive],
             me, sa.stable),
           me, ci.pivot_chain[Len(ci.pivot_chain)])
    ELSE [ci |-> recompute_metadata(
                   [ci EXCEPT !.arena[me].data.partial_invalid = TRUE,
                              !.arena[me].stable = sa.stable,
                              !.arena[me].adaptive = sa.adaptive],
                   Len(ci.pivot_chain) + 1, {me}),
          fully_valid |-> FALSE]

OnNewBlockWeighed(ci, header, anticone_barrier, sa) ==
  OnNewBlockChecked(
    ci, header.hash, sa,
    IF preliminary_check_validity(ci, header.hash)
      THEN check_block_full_validity(ci, header.hash, header, sa.adaptive, anticone_barrier)
      ELSE FALSE)

OnNewBlockAnticone(ci, header, anticone_barrier) ==
  OnNewBlockWeighed(ci, header, anticone_barrier,
                    adaptive_weight(ci, header.hash, anticone_barrier))

OnNewBlockInserted(ci, header) ==
  OnNewBlockAnticone(update_lcts_initial(ci, header.hash), header,
                     anticone_barrier_of(ci.arena, ci.anticone_cache[header.hash]))

on_new_block(ci, header) ==
  OnNewBlockInserted(compute_anticone(consensus_insert(ci, header), header.hash), header)

(***************************************************************************)
(* ConsensusGraph::on_new_block_construction_only and construct_pivot      *)
(***************************************************************************)
ConstructionWeighed(ci, me, sa) ==
  update_lcts_finalize(
    [ci EXCEPT !.arena[me].stable = sa.stable, !.arena[me].adaptive = sa.adaptive],
    me, sa.stable)

ConstructionLinked(ci, me, anticone_barrier) ==
  ConstructionWeighed(ci, me, adaptive_weight(ci, me, anticone_barrier))

ConstructionInserted(ci, me, fully_valid) ==
  IF ~fully_valid THEN [ci EXCEPT !.arena[me].data.partial_invalid = TRUE]
  ELSE ConstructionLinked(update_lcts_initial(ci, me), me,
                          anticone_barrier_of(ci.arena, ci.anticone_cache[me]))

\* block_status is what data_man.block_status_from_db knows: the hashes with
\* a recorded status, each with its partial_invalid flag
on_new_block_construction_only(ci, header, block_status) ==
  ConstructionInserted(
    compute_anticone(consensus_insert(ci, header), header.hash), header.hash,
    IF header.hash \in DOMAIN block_status THEN ~block_status[header.hash] ELSE TRUE)

ConstructPivotOn(ci) ==
  recompute_metadata(
    adjust_difficulty(ConstructEpochs(ci, 1), ci.pivot_chain[Len(ci.pivot_chain)]),
    0, DOMAIN ci.arena \ {ci.genesis_block_index})

\* construct_pivot: the pivot chain by heaviest child, the epochs, the
\* difficulty, the metadata of every block but the genesis block
construct_pivot(ci) ==
  ConstructPivotOn([ci EXCEPT !.pivot_chain = Descend(ci, <<>>, ci.genesis_block_index)])

\* on_new_block_construction_only for each of the hashes, in order
RECURSIVE ConstructAll(_, _, _)
ConstructAll(ci, hashes, block_status) ==
  IF hashes = <<>> THEN ci
  ELSE ConstructAll(on_new_block_construction_only(ci, HeaderOf(Head(hashes)), block_status),
                    Tail(hashes), block_status)

(***************************************************************************)
(* SynchronizationGraph::new and the recovery from the database            *)
(***************************************************************************)
\* what the database can hold at start-up: the "terminals" entry
\* (has_terminals is FALSE when the key is absent) and the stored blocks, all
\* of which were accepted by an earlier run
DbOptions(world) ==
  {[has_terminals |-> FALSE, terminals |-> <<>>, stored |-> {}]}
  \cup (IF world = Restrict(ValidWorld)
          THEN {[has_terminals |-> TRUE, terminals |-> <<4>>, stored |-> {2, 3, 4}],
                [has_terminals |-> TRUE, terminals |-> <<4>>, stored |-> {3, 4}]}
          ELSE {})

\* SynchronizationGraphInner::with_genesis_block
with_genesis_block(header, t) ==
  LET empty == [arena |-> <<>>,
                children_by_hash |-> Table([h \in DOMAIN block_table |-> <<>>]),
                referrers_by_hash |-> Table([h \in DOMAIN block_table |-> <<>>]),
                not_ready_block_indices |-> {},
                old_era_blocks_frontier |-> <<>>,
                old_era_blocks_frontier_set |-> {},
                genesis_block_index |-> NULL]
      inserted == insert(empty, header, t)
  IN [inserted EXCEPT !.genesis_block_index = header.hash,
                      !.old_era_blocks_frontier = Append(@, header.hash),
                      !.old_era_blocks_frontier_set = @ \cup {header.hash}]

\* the nodes an operation newly marked BLOCK_INVALID
MarkedIn(before, after) ==
  {h \in DOMAIN after :
     /\ after[h].graph_status = BLOCK_INVALID
     /\ ~(h \in DOMAIN before /\ before[h].graph_status = BLOCK_INVALID)}

InvalidNodes(arena) == {h \in DOMAIN arena : arena[h].graph_status = BLOCK_INVALID}

\* The record of one operation: its arguments (body is "none" for the
\* operations without one), its result, the arena as the operation's loop
\* left it before the invalid blocks were removed, the nodes it newly marked
\* BLOCK_INVALID, the nodes that were BLOCK_INVALID before it, and what the
\* graph and the data manager knew of the hash before it.
LastOp(op, hash, body, need_to_verify, accepted, outcome, before, dm_before, before_removal) ==
  [op |-> op, hash |-> hash, body |-> body, need_to_verify |-> need_to_verify,
   accepted |-> accepted, outcome |-> outcome,
   before_removal |-> before_removal,
   marked |-> MarkedIn(before, before_removal),
   was_invalid |-> InvalidNodes(before),
   known |-> hash \in DOMAIN before,
   ready |-> IF hash \in DOMAIN before THEN before[hash].block_ready ELSE FALSE,
   memoized |-> hash \in dm_before.invalid]

LogSends(sends, via) == Table([i \in 1..Len(sends) |-> [hash |-> sends[i], via |-> via]])

Init ==
  /\ block_table \in Worlds
  /\ inner = with_genesis_block(genesis_header, 0)
  /\ \E db \in DbOptions(block_table), fast_recover \in BOOLEAN :
       /\ data_man = [invalid |-> {}, headers |-> {GENESIS_HASH},
                      blocks |-> {GENESIS_HASH} \cup (db.stored \cap AllHashes),
                      block_status |-> <<>>]
       /\ recovery = [phase |-> IF ~db.has_terminals THEN "done"
                                ELSE IF fast_recover THEN "fast_recover" ELSE "recover",
                      pc |-> "pop",
                      queue |-> db.terminals,
                      visited_blocks |-> IF fast_recover THEN Range(db.terminals) ELSE {},
                      missed_hashes |-> {}]
  /\ consensus = consensus_with_genesis_block(genesis_header)
  /\ consensus_channel = <<>>
  /\ worker_alive = TRUE
  /\ now = 0
  /\ sent = <<>>
  /\ handled = <<>>
  /\ last = LastOp("new", GENESIS_HASH, "none", FALSE, TRUE, "returned",
                   inner.arena, data_man, inner.arena)
  /\ bft = BftIdle
  /\ brutal = BrutalIdle

\* the history variables after an operation of the SynchronizationGraph;
\* last keeps the latest operation that changed the graph or the data manager
\* or that was refused
Record(lo) ==
  last' = IF inner' # inner \/ data_man' # data_man \/ ~lo.accepted THEN lo ELSE last

\* the state after insert_block_header returned r
CommitHeader(hash, need_to_verify, r) ==
  /\ inner' = r.inner
  /\ data_man' = r.data_man
  /\ Record(LastOp("insert_block_header", hash, "none", need_to_verify, r.accepted,
                   "returned", inner.arena, data_man, r.before_removal))

\* the state after insert_block returned (or panicked with) r
CommitBlock(hash, body, need_to_verify, r, via) ==
  /\ inner' = r.inner
  /\ data_man' = r.data_man
  /\ Record(LastOp("insert_block", hash, body, need_to_verify, r.accepted, r.outcome,
                   inner.arena, data_man, r.before_removal))
  /\ sent' = sent \o LogSends(r.sends, via)
  /\ consensus_channel' = IF via = "channel" THEN consensus_channel \o r.sends
                          ELSE consensus_channel
  /\ consensus' = IF via = "construction_only"
                    THEN ConstructAll(consensus, r.sends, data_man.block_status)
                    ELSE consensus

\* one iteration of the recovery loop, up to and including insert_block_header
RecoverHeaderDone(hash, r) ==
  /\ CommitHeader(hash, TRUE, r)
  /\ recovery' = [recovery EXCEPT !.pc = IF r.accepted THEN "block" ELSE "assert_failed"]

RecoverHeader ==
  /\ recovery.phase \in {"recover", "fast_recover"}
  /\ recovery.pc = "pop"
  /\ recovery.queue # <<>>
  /\ LET hash == Head(recovery.queue)
     IN IF hash = GENESIS_HASH
          THEN /\ recovery' = [recovery EXCEPT !.queue = Tail(@)]
               /\ UNCHANGED <<inner, data_man, last>>
        ELSE IF hash \notin data_man.blocks
          THEN /\ recovery' = [recovery EXCEPT !.queue = Tail(@),
                                               !.missed_hashes = @ \cup {hash}]
               /\ UNCHANGED <<inner, data_man, last>>
        ELSE RecoverHeaderDone(
               hash, insert_block_header(inner, data_man, HeaderOf(hash), TRUE, now))
  /\ UNCHANGED <<block_table, consensus, consensus_channel, worker_alive, now, sent,
                 handled>>
  /\ UNCHANGED <<bft, brutal>>

\* the parent and the referees the recovery loop pushes on its queue
RecoverWanted(header, arena) ==
  SelectSeq(<<header.parent_hash>> \o header.referee_hashes,
            LAMBDA h : /\ ~(IF h \in DOMAIN arena THEN arena[h].block_ready ELSE FALSE)
                       /\ h \notin recovery.visited_blocks)

RecoverBlockDone(hash, r, wanted) ==
  /\ CommitBlock(hash, "valid", TRUE, r,
                 IF recovery.phase = "fast_recover" THEN "construction_only"
                          ELSE "channel")
  /\ recovery' = IF r.outcome = "panic"
                   THEN [recovery EXCEPT !.pc = "panicked"]
                   ELSE [recovery EXCEPT !.pc = "pop",
                                         !.queue = Tail(@) \o wanted,
                                         !.visited_blocks = @ \cup Range(wanted)]

RecoverBlockPush(hash, r) ==
  RecoverBlockDone(hash, r, RecoverWanted(HeaderOf(hash), r.inner.arena))

\* the rest of the iteration: insert_block and the pushes of parent and referees
RecoverBlock ==
  /\ recovery.phase \in {"recover", "fast_recover"}
  /\ recovery.pc = "block"
  /\ RecoverBlockPush(
       Head(recovery.queue),
       insert_block(inner, data_man, Head(recovery.queue), "valid", TRUE,
                    recovery.phase = "fast_recover",
                    recovery.phase = "fast_recover" \/ worker_alive))
  /\ UNCHANGED <<block_table, worker_alive, now, handled>>
  /\ UNCHANGED <<bft, brutal>>

\* the end of the recovery loop; fast_recover_graph_from_db then builds the
\* pivot chain
RecoverFinish ==
  /\ recovery.phase \in {"recover", "fast_recover"}
  /\ recovery.pc = "pop"
  /\ recovery.queue = <<>>
  /\ recovery' = [recovery EXCEPT !.phase = "done", !.visited_blocks = {}]
  /\ consensus' = IF recovery.phase = "fast_recover" THEN construct_pivot(consensus)
                  ELSE consensus
  /\ UNCHANGED <<block_table, inner, data_man, consensus_channel, worker_alive, now,
                 sent, handled, last>>
  /\ UNCHANGED <<bft, brutal>>

(***************************************************************************)
(* Operations of the running node                                          *)
(***************************************************************************)
GraphReadyIn(arena, h) ==
  h \in DOMAIN arena /\ arena[h].graph_status = BLOCK_GRAPH_READY

\* a block mined by this node is well-formed and sits on a graph-ready parent
\* and graph-ready referees
MinedHere(h) ==
  /\ GraphReadyIn(inner.arena, HeaderOf(h).parent_hash)
  /\ \A i \in 1..Len(HeaderOf(h).referee_hashes) :
        GraphReadyIn(inner.arena, HeaderOf(h).referee_hashes[i])
  /\ verify_header_params(HeaderOf(h))
  /\ verify_header_graph_ready_block(inner.arena, h)

\* a peer (need_to_verify) or the miner (~need_to_verify) submits a header
InsertBlockHeader ==
  /\ recovery.phase = "done"
  /\ \E hash \in Submittable, need_to_verify \in BOOLEAN :
       /\ ~need_to_verify => MinedHere(hash)
       /\ CommitHeader(hash, need_to_verify,
                       insert_block_header(inner, data_man, HeaderOf(hash),
                                           need_to_verify, now))
  /\ UNCHANGED <<block_table, consensus, consensus_channel, worker_alive, now,
                 recovery, sent, handled>>
  /\ UNCHANGED <<bft, brutal>>

\* a peer or the miner submits a block body
InsertBlock ==
  /\ recovery.phase = "done"
  /\ \E hash \in Submittable, body \in BodyKinds, need_to_verify \in BOOLEAN :
       /\ ~need_to_verify => (MinedHere(hash) /\ body = "valid")
       /\ CommitBlock(hash, body, need_to_verify,
                      insert_block(inner, data_man, hash, body, need_to_verify,
                                   FALSE, worker_alive),
                      "channel")
  /\ UNCHANGED <<block_table, worker_alive, now, recovery, handled>>
  /\ UNCHANGED <<bft, brutal>>

CommitExpire(r) ==
  /\ inner' = r.inner
  /\ data_man' = r.data_man
  /\ Record(LastOp("remove_expire_blocks", NULL, "none", FALSE, r.acted, "returned",
                   inner.arena, data_man, r.before_removal))

\* the periodic garbage collection of blocks that never became graph-ready
RemoveExpireBlocks ==
  /\ recovery.phase = "done"
  /\ \E expire_time \in 0..MaxTime :
       CommitExpire(remove_expire_blocks(inner, data_man, expire_time, now))
  /\ UNCHANGED <<block_table, consensus, consensus_channel, worker_alive, now,
                 recovery, sent, handled>>
  /\ UNCHANGED <<bft, brutal>>

\* on_new_block returned r: the block status goes to the database
WorkerDone(hash, r) ==
  /\ consensus' = r.ci
  /\ data_man' = [data_man EXCEPT !.block_status = ArenaPut(@, hash, ~r.fully_valid)]
  /\ worker_alive' = TRUE

\* on_new_block panics at an unwrap() when the body of the block is not in
\* the database or when the parent or a referee is not in the consensus
\* graph; the panic ends the thread
WorkerStep(hash) ==
  IF hash \in data_man.blocks /\ CanInsert(consensus, HeaderOf(hash))
    THEN WorkerDone(hash, on_new_block(consensus, HeaderOf(hash)))
    ELSE worker_alive' = FALSE /\ UNCHANGED <<consensus, data_man>>

\* one iteration of the "Consensus Worker" loop
ConsensusWorker ==
  /\ worker_alive
  /\ consensus_channel # <<>>
  /\ consensus_channel' = Tail(consensus_channel)
  /\ handled' = Append(handled, Head(consensus_channel))
  /\ WorkerStep(Head(consensus_channel))
  /\ UNCHANGED <<block_table, inner, now, recovery, sent, last>>
  /\ UNCHANGED <<bft, brutal>>

\* the wall clock advances
Tick ==
  /\ now < MaxTime
  /\ now' = now + 1
  /\ UNCHANGED <<block_table, inner, data_man, consensus, consensus_channel,
                 worker_alive, recovery, sent, handled, last>>
  /\ UNCHANGED <<bft, brutal>>

vars == <<block_table, inner, data_man, consensus, consensus_channel, worker_alive,
          now, recovery, sent, handled, last, bft, brutal>>

Next ==
  \/ RecoverHeader
  \/ RecoverBlock
  \/ RecoverFinish
  \/ InsertBlockHeader
  \/ InsertBlock
  \/ RemoveExpireBlocks
  \/ ConsensusWorker
  \/ Tick

Spec == Init /\ [][Next]_vars

(***************************************************************************)
(* The ConsensusGraph on its own.  The environment is a small Tree-Graph   *)
(* whose blocks on_new_block receives in an order in which every block     *)
(* follows its parent and its referees, the order the                      *)
(* SynchronizationGraph hands them over in.                                *)
(***************************************************************************)
\* number of non-genesis blocks of the Tree-Graph
MaxConsBlocks == 3

\* plain:          a block that states it is not adaptive
\* bad_deferred:   a block whose deferred roots are wrong
\* adaptive:       a block that states it is adaptive, not heavy
\* adaptive_heavy: a block that states it is adaptive, heavy
BlockKinds == {"plain", "bad_deferred", "adaptive", "adaptive_heavy"}

ConsHeader(hash, parent_hash, referee_hashes, height, kind) ==
  [Header(hash, parent_hash, referee_hashes, height, height, GENESIS_GAS_LIMIT,
          initial_difficulty, TRUE)
     EXCEPT !.adaptive = kind \in {"adaptive", "adaptive_heavy"},
            !.pow_quality = IF kind = "adaptive_heavy"
                              THEN heavy_block_difficulty_ratio * initial_difficulty
                              ELSE initial_difficulty,
            !.deferred_ok = kind # "bad_deferred"]

\* the referee lists of a block on parent p: none, or one earlier block that
\* is neither the parent nor the genesis block
RefereeChoices(n, p) == {<<>>} \cup {<<r>> : r \in (2..(n - 1)) \ {p}}

\* the Tree-Graphs of the blocks 1..n: every block is younger than its
\* parent and its referees
RECURSIVE ConsTables(_)
ConsTables(n) ==
  IF n = 1 THEN {[h \in {GENESIS_HASH} |-> genesis_header]}
  ELSE UNION {UNION {{ArenaPut(t, n, ConsHeader(n, p, refs, t[p].height + 1, kind))
                       : refs \in RefereeChoices(n, p), kind \in BlockKinds}
                     : p \in 1..(n - 1)}
                : t \in ConsTables(n - 1)}

\* a Tree-Graph of two branches: block 3 with its child 6, and block 2 with
\* its children 4, 5 and 8, where 5 has a child 7 whose deferred roots are
\* wrong and 8, with the adaptive flag, refers to 6, a block of the other
\* branch
ForkTable ==
  <<genesis_header,
    ConsHeader(2, 1, <<>>, 1, "plain"),
    ConsHeader(3, 1, <<>>, 1, "plain"),
    ConsHeader(4, 2, <<>>, 2, "plain"),
    ConsHeader(5, 2, <<>>, 2, "plain"),
    ConsHeader(6, 3, <<>>, 2, "plain"),
    ConsHeader(7, 5, <<>>, 3, "bad_deferred"),
    ConsHeader(8, 2, <<6>>, 2, "adaptive")>>

\* a chain of three blocks and a block beside it that refers to the tip of
\* the chain, with a child
ShortcutTable ==
  <<genesis_header,
    ConsHeader(2, 1, <<>>, 1, "plain"),
    ConsHeader(3, 2, <<>>, 2, "plain"),
    ConsHeader(4, 3, <<>>, 3, "plain"),
    ConsHeader(5, 1, <<4>>, 1, "plain"),
    ConsHeader(6, 5, <<>>, 2, "plain")>>

InitCons ==
  /\ block_table \in ConsTables(MaxConsBlocks + 1) \cup {ForkTable, ShortcutTable}
  /\ inner = with_genesis_block(genesis_header, 0)
  /\ data_man = [invalid |-> {}, headers |-> DOMAIN block_table,
                 blocks |-> DOMAIN block_table, block_status |-> <<>>]
  /\ consensus = consensus_with_genesis_block(genesis_header)
  /\ consensus_channel = <<>>
  /\ worker_alive = TRUE
  /\ now = 0
  /\ recovery = [phase |-> "done", pc |-> "pop", queue |-> <<>>, visited_blocks |-> {},
                 missed_hashes |-> {}]
  /\ sent = <<>>
  /\ handled = <<>>
  /\ last = LastOp("new", GENESIS_HASH, "none", FALSE, TRUE, "returned",
                   inner.arena, data_man, inner.arena)
  /\ bft = BftIdle
  /\ brutal = BrutalIdle

\* on_new_block for a block whose parent and referees went before it
OnNewBlock ==
  /\ \E hash \in DOMAIN block_table \ DOMAIN consensus.arena :
       /\ CanInsert(consensus, HeaderOf(hash))
       /\ WorkerDone(hash, on_new_block(consensus, HeaderOf(hash)))
       /\ handled' = Append(handled, hash)
  /\ UNCHANGED <<block_table, inner, consensus_channel, now, recovery, sent, last>>
  /\ UNCHANGED <<bft, brutal>>

NextCons == OnNewBlock

SpecCons == InitCons /\ [][NextCons]_vars

(***************************************************************************)
(* The Executor.  Epochs are executed once the pivot chain is more than    *)
(* DEFERRED_STATE_EPOCH_COUNT blocks long: the Tree-Graph is a branch of   *)
(* BranchLen blocks (2, 3, ...), a branch of one block more beside it, and *)
(* a last block on the shorter branch, whose deferred roots may be wrong.  *)
(* The blocks arrive in any order that respects parents.                   *)
(***************************************************************************)
BranchLen == 5

ExecTable(kind) ==
  [h \in 1..(2 * BranchLen + 3) |->
     IF h = GENESIS_HASH THEN genesis_header
     ELSE IF h <= BranchLen + 1 THEN ConsHeader(h, h - 1, <<>>, h - 1, "plain")
     ELSE IF h = BranchLen + 2 THEN ConsHeader(h, GENESIS_HASH, <<>>, 1, "plain")
     ELSE IF h <= 2 * BranchLen + 2
       THEN ConsHeader(h, h - 1, <<>>, h - BranchLen - 1, "plain")
     ELSE ConsHeader(h, BranchLen + 1, <<>>, BranchLen + 1, kind)]

InitExec ==
  /\ block_table \in {Table(ExecTable(kind)) : kind \in {"plain", "bad_deferred"}}
  /\ inner = with_genesis_block(genesis_header, 0)
  /\ data_man = [invalid |-> {}, headers |-> DOMAIN block_table,
                 blocks |-> DOMAIN block_table, block_status |-> <<>>]
  /\ consensus = consensus_with_genesis_block(genesis_header)
  /\ consensus_channel = <<>>
  /\ worker_alive = TRUE
  /\ now = 0
  /\ recovery = [phase |-> "done", pc |-> "pop", queue |-> <<>>, visited_blocks |-> {},
                 missed_hashes |-> {}]
  /\ sent = <<>>
  /\ handled = <<>>
  /\ last = LastOp("new", GENESIS_HASH, "none", FALSE, TRUE, "returned",
                   inner.arena, data_man, inner.arena)
  /\ bft = BftIdle
  /\ brutal = BrutalIdle

NextExec == OnNewBlock

SpecExec == InitExec /\ [][NextExec]_vars

(***************************************************************************)
(* Shutdown.  consensus_sender is a field of SynchronizationGraph: it is    *)
(* dropped with the graph, after which nothing can be inserted or sent.    *)
(* recv() hands out the hashes still queued and answers Err once the queue *)
(* is empty and the sender is gone, which the queue shows as a last        *)
(* element Disconnected.                                                   *)
(***************************************************************************)
Disconnected == NULL

SenderDropped ==
  \E i \in 1..Len(consensus_channel \o handled) :
    (consensus_channel \o handled)[i] = Disconnected

\* the operations of the running node
Running == ~SenderDropped /\ Next

\* the SynchronizationGraph, and with it the sender, is dropped; new()
\* has returned, so the recovery is over
DropSender ==
  /\ ~SenderDropped
  /\ recovery.phase = "done"
  /\ consensus_channel' = Append(consensus_channel, Disconnected)
  /\ UNCHANGED <<block_table, inner, data_man, consensus, worker_alive, now, recovery,
                 sent, handled, last>>
  /\ UNCHANGED <<bft, brutal>>

\* Ok(hash) => consensus.on_new_block(&hash), for a hash sent before the drop
Drain ==
  /\ SenderDropped
  /\ consensus_channel # <<>>
  /\ Head(consensus_channel) # Disconnected
  /\ ConsensusWorker

\* Err(_) => break
ObserveClosed ==
  /\ worker_alive
  /\ consensus_channel # <<>>
  /\ Head(consensus_channel) = Disconnected
  /\ consensus_channel' = Tail(consensus_channel)
  /\ handled' = Append(handled, Disconnected)
  /\ worker_alive' = FALSE
  /\ UNCHANGED <<block_table, inner, data_man, consensus, now, recovery, sent, last>>
  /\ UNCHANGED <<bft, brutal>>

NextShutdown ==
  \/ Running
  \/ DropSender
  \/ Drain
  \/ ObserveClosed

SpecShutdown == Init /\ [][NextShutdown]_vars

(***************************************************************************)
(* verify_header_graph_ready_block on its own: a parent header (hash 2) and *)
(* a child header (hash 3) are drawn from every height, difficulty and     *)
(* target below the bounds, and the function is applied to the child       *)
(***************************************************************************)
\* the greatest height of the parent header
MaxHeight == 4

\* the greatest difficulty and target of a header
MaxDifficulty == 4

PARENT == GENESIS_HASH + 1

CHILD == PARENT + 1

VerifyTables ==
  {<<genesis_header,
     [Header(PARENT, GENESIS_HASH, <<>>, ph, 1, GENESIS_GAS_LIMIT, pd, TRUE)
        EXCEPT !.target = t],
     Header(CHILD, PARENT, <<>>, h, 1, GENESIS_GAS_LIMIT, d, TRUE)>>
     : ph \in 0..MaxHeight, pd \in 1..MaxDifficulty, t \in 1..MaxDifficulty,
       h \in 1..(MaxHeight + 1), d \in 1..MaxDifficulty}

InitVerify ==
  /\ block_table \in {tb \in VerifyTables : tb[CHILD].height \in {tb[PARENT].height + 1,
                                                                  tb[PARENT].height + 2}}
  /\ inner = with_genesis_block(genesis_header, 0)
  /\ data_man = [invalid |-> {}, headers |-> DOMAIN block_table,
                 blocks |-> {GENESIS_HASH}, block_status |-> <<>>]
  /\ consensus = consensus_with_genesis_block(genesis_header)
  /\ consensus_channel = <<>>
  /\ worker_alive = TRUE
  /\ now = 0
  /\ recovery = [phase |-> "done", pc |-> "pop", queue |-> <<>>, visited_blocks |-> {},
                 missed_hashes |-> {}]
  /\ sent = <<>>
  /\ handled = <<>>
  /\ last = LastOp("new", GENESIS_HASH, "none", FALSE, TRUE, "returned",
                   inner.arena, data_man, inner.arena)
  /\ bft = BftIdle
  /\ brutal = BrutalIdle

\* verify_header_graph_ready_block is applied to the child header
VerifyHeader ==
  /\ last.op = "new"
  /\ last' = LastOp("verify_header_graph_ready_block", CHILD, "none", TRUE,
                    verify_header_graph_ready_block(inner.arena, CHILD), "returned",
                    inner.arena, data_man, inner.arena)
  /\ UNCHANGED <<block_table, inner, data_man, consensus, consensus_channel,
                 worker_alive, now, recovery, sent, handled>>
  /\ UNCHANGED <<bft, brutal>>

NextVerify == VerifyHeader

SpecVerify == InitVerify /\ [][NextVerify]_vars

(***************************************************************************)
(* The BFT block executor (alliance_tree_graph/bft/executor).  A block is  *)
(* a list of transactions.  A transaction has the fields kind, and for a   *)
(* user transaction signature_ok (check_signature succeeds), admin_type,   *)
(* signers, payload; events are the events of its write set.  An event has *)
(* the fields key, decodes (from_bytes succeeds on its data), this_epoch   *)
(* and value (what the data decodes to, a number).                         *)
(***************************************************************************)
BftTransaction(kind, signature_ok, admin_type, signers, payload, events) ==
  [kind |-> kind, signature_ok |-> signature_ok, admin_type |-> admin_type,
   signers |-> signers, payload |-> payload, events |-> events]

ContractEvent(key, decodes, this_epoch, value) ==
  [key |-> key, decodes |-> decodes, this_epoch |-> this_epoch, value |-> value]

validator_set_change_event_key == "ValidatorSetChange"
pivot_select_event_key == "PivotSelect"

\* Result<ProcessedVMOutput>: Ok(ProcessedVMOutput::new(..)) or Err(error)
ProcessedVMOutput(next_validator_set, next_pivot_block, pivot_updated) ==
  [ok |-> TRUE, error |-> "", next_validator_set |-> next_validator_set,
   next_pivot_block |-> next_pivot_block, pivot_updated |-> pivot_updated]

BftErr(error) ==
  [ok |-> FALSE, error |-> error, next_validator_set |-> NULL,
   next_pivot_block |-> NULL, pivot_updated |-> FALSE]

\* "for event in vm_output.events()", were a proposal of another epoch to
\* be skipped
RECURSIVE ProcessEvents_skipping_wrong_epoch(_, _, _)
ProcessEvents_skipping_wrong_epoch(events, acc, current_epoch) ==
  IF events = <<>> THEN acc
  ELSE IF Head(events).key = validator_set_change_event_key
    THEN IF ~Head(events).decodes THEN BftErr("from_bytes")
         ELSE IF current_epoch # Head(events).this_epoch THEN acc
         ELSE [acc EXCEPT !.next_validator_set = Head(events).value]
  ELSE IF Head(events).key = pivot_select_event_key
    THEN IF ~Head(events).decodes THEN BftErr("from_bytes")
         ELSE [acc EXCEPT !.next_pivot_block = Head(events).value,
                          !.pivot_updated = TRUE]
  ELSE ProcessEvents_skipping_wrong_epoch(Tail(events), acc, current_epoch)

\* "for event in vm_output.events()": the first event with one of the two
\* keys ends the loop
RECURSIVE ProcessEvents(_, _, _)
ProcessEvents(events, acc, current_epoch) ==
  IF events = <<>> THEN acc
  ELSE IF Head(events).key = validator_set_change_event_key
    THEN IF ~Head(events).decodes THEN BftErr("from_bytes")
         ELSE IF current_epoch # Head(events).this_epoch
           THEN BftErr("Wrong epoch proposal.")
         ELSE [acc EXCEPT !.next_validator_set = Head(events).value]
  ELSE IF Head(events).key = pivot_select_event_key
    THEN IF ~Head(events).decodes THEN BftErr("from_bytes")
         ELSE [acc EXCEPT !.next_pivot_block = Head(events).value,
                          !.pivot_updated = TRUE]
  ELSE ProcessEvents(Tail(events), acc, current_epoch)

\* "for vm_output in vm_outputs.into_iter()"
RECURSIVE ProcessOutputs(_, _, _)
ProcessOutputs(vm_outputs, acc, current_epoch) ==
  IF vm_outputs = <<>> \/ ~acc.ok THEN acc
  ELSE ProcessOutputs(Tail(vm_outputs),
                      ProcessEvents(Head(vm_outputs), acc, current_epoch),
                      current_epoch)

\* process_vm_outputs without its bound on the number of outputs
process_vm_outputs_any_number(vm_outputs, last_pivot, current_epoch) ==
  ProcessOutputs(vm_outputs, ProcessedVMOutput(NULL, last_pivot, FALSE), current_epoch)

process_vm_outputs(vm_outputs, last_pivot, current_epoch) ==
  IF Len(vm_outputs) > 1
    THEN BftErr("One block can have at most one transaction output!")
    ELSE ProcessOutputs(vm_outputs, ProcessedVMOutput(NULL, last_pivot, FALSE),
                        current_epoch)

\* ValidatorVerifier::check_voting_power: every signer is a validator and
\* their voting power reaches the quorum
check_voting_power(admins, signers) ==
  IF signers \ DOMAIN admins.voting_power # {} THEN "UnknownAuthor"
  ELSE IF SumOver([a \in signers |-> admins.voting_power[a]], signers)
            < admins.quorum_voting_power
    THEN "TooLittleVotingPower"
  ELSE "Ok"

\* the events of a transaction that was checked, or the error
EventsOf(events) ==
  IF Len(events) # 1 THEN [ok |-> FALSE, error |-> "One transaction can contain exactly 1 event."]
  ELSE [ok |-> TRUE, events |-> events]

PayloadOf(trans) ==
  IF trans.payload # "WriteSet" THEN [ok |-> FALSE, error |-> "Wrong transaction payload"]
  ELSE EventsOf(trans.events)

AdminChecked(administrators, trans) ==
  IF ~trans.admin_type THEN PayloadOf(trans)
  ELSE IF ~administrators.is_some
    THEN [ok |-> FALSE, error |-> "Administrators are not set."]
  ELSE IF check_voting_power(administrators, trans.signers) = "TooLittleVotingPower"
    THEN [ok |-> FALSE, error |-> "Not enough voting power in administrators."]
  ELSE IF check_voting_power(administrators, trans.signers) # "Ok"
    THEN [ok |-> FALSE, error |-> "There are signers not in administrators."]
  ELSE PayloadOf(trans)

\* the body of "for transaction in transactions" for a transaction that
\* is not a BlockMetadata
ExecuteTransaction(administrators, transaction) ==
  IF transaction.kind = "UserTransaction"
    THEN IF ~transaction.signature_ok THEN [ok |-> FALSE, error |-> "check_signature"]
         ELSE AdminChecked(administrators, transaction)
    ELSE EventsOf(transaction.events)

\* "for transaction in transactions": vm_outputs is the list of the event
\* lists of the outputs
RECURSIVE ExecuteLoop(_, _, _, _, _)
ExecuteLoop(administrators, transactions, vm_outputs, last_pivot, current_epoch) ==
  IF transactions = <<>> THEN process_vm_outputs(vm_outputs, last_pivot, current_epoch)
  ELSE IF Head(transactions).kind = "BlockMetadata"
    THEN ExecuteLoop(administrators, Tail(transactions), vm_outputs, last_pivot,
                     current_epoch)
  ELSE IF ~ExecuteTransaction(administrators, Head(transactions)).ok
    THEN BftErr(ExecuteTransaction(administrators, Head(transactions)).error)
  ELSE ExecuteLoop(administrators, Tail(transactions),
                   Append(vm_outputs,
                          ExecuteTransaction(administrators, Head(transactions)).events),
                   last_pivot, current_epoch)

\* execute_block, were it to refuse a block of more than one transaction
execute_block_one_transaction(administrators, transactions, last_pivot, current_epoch) ==
  IF Len(transactions) > 1
    THEN BftErr("One block can at most contain 1 user transaction for proposal.")
    ELSE ExecuteLoop(administrators, transactions, <<>>, last_pivot, current_epoch)

execute_block(administrators, transactions, last_pivot, current_epoch) ==
  IF Len(transactions) > 2
    THEN BftErr("One block can at most contain 1 user transaction for proposal.")
    ELSE ExecuteLoop(administrators, transactions, <<>>, last_pivot, current_epoch)

\* the greatest number of transactions of a block
MaxTransactions == 3

\* the epochs a block is executed in; the proposals are for epoch 1
BftEpochs == {0, 1}

\* the administrators: the validators 1 and 2, both needed for the quorum
Admins ==
  [is_some |-> TRUE, voting_power |-> [a \in {1, 2} |-> 1], quorum_voting_power |-> 2]

BftEventChoices ==
  {ContractEvent(validator_set_change_event_key, TRUE, 1, GENESIS_HASH + 1),
   ContractEvent(validator_set_change_event_key, FALSE, 1, GENESIS_HASH + 1),
   ContractEvent(pivot_select_event_key, TRUE, 0, GENESIS_HASH + 2),
   ContractEvent(pivot_select_event_key, FALSE, 0, GENESIS_HASH + 2),
   ContractEvent("Other", TRUE, 0, GENESIS_HASH)}

BftEventLists ==
  {<<e>> : e \in BftEventChoices}
    \cup {<<>>,
          <<ContractEvent("Other", TRUE, 0, GENESIS_HASH),
            ContractEvent(validator_set_change_event_key, TRUE, 1, GENESIS_HASH + 1)>>}

BftTransactionChoices ==
  {BftTransaction("BlockMetadata", TRUE, FALSE, {}, "None", <<>>)}
    \cup {BftTransaction("WriteSet", TRUE, FALSE, {}, "None", es) : es \in BftEventLists}
    \cup {BftTransaction("UserTransaction", TRUE, FALSE, {1}, "WriteSet", es)
            : es \in BftEventLists}
    \cup {BftTransaction("UserTransaction", TRUE, TRUE, signers, "WriteSet",
                         <<ContractEvent(validator_set_change_event_key, TRUE, 1,
                                         GENESIS_HASH + 1)>>)
            : signers \in {{1, 2}, {1}, {1, 3}}}
    \cup {BftTransaction("UserTransaction", FALSE, FALSE, {1}, "WriteSet",
                         <<ContractEvent(pivot_select_event_key, TRUE, 0, GENESIS_HASH + 2)>>),
          BftTransaction("UserTransaction", TRUE, FALSE, {1}, "Script", <<>>)}

RECURSIVE BftBlocks(_)
BftBlocks(n) ==
  IF n = 0 THEN {<<>>}
  ELSE BftBlocks(n - 1)
         \cup {Append(b, t) : b \in {c \in BftBlocks(n - 1) : Len(c) = n - 1},
                              t \in BftTransactionChoices}

InitBft ==
  /\ block_table = Table([h \in {GENESIS_HASH} |-> genesis_header])
  /\ inner = with_genesis_block(genesis_header, 0)
  /\ data_man = [invalid |-> {}, headers |-> {GENESIS_HASH},
                 blocks |-> {GENESIS_HASH}, block_status |-> <<>>]
  /\ consensus = consensus_with_genesis_block(genesis_header)
  /\ consensus_channel = <<>>
  /\ worker_alive = TRUE
  /\ now = 0
  /\ recovery = [phase |-> "done", pc |-> "pop", queue |-> <<>>, visited_blocks |-> {},
                 missed_hashes |-> {}]
  /\ sent = <<>>
  /\ handled = <<>>
  /\ last = LastOp("new", GENESIS_HASH, "none", FALSE, TRUE, "returned",
                   inner.arena, data_man, inner.arena)
  /\ \E transactions \in BftBlocks(MaxTransactions), last_pivot \in {NULL, GENESIS_HASH},
        current_epoch \in BftEpochs :
       bft = [BftIdle EXCEPT !.transactions = transactions,
                             !.last_pivot = last_pivot,
                             !.current_epoch = current_epoch]
  /\ brutal = BrutalIdle

\* Executor::set_administrators
SetAdministrators ==
  /\ ~bft.returned
  /\ ~bft.administrators.is_some
  /\ bft' = [bft EXCEPT !.administrators = Admins]
  /\ UNCHANGED <<block_table, inner, data_man, consensus, consensus_channel,
                 worker_alive, now, recovery, sent, handled, last, brutal>>

\* Executor::execute_block
ExecuteBlock ==
  /\ ~bft.returned
  /\ bft' = [bft EXCEPT !.returned = TRUE,
                        !.output = execute_block(bft.administrators, bft.transactions,
                                                 bft.last_pivot, bft.current_epoch)]
  /\ UNCHANGED <<block_table, inner, data_man, consensus, consensus_channel,
                 worker_alive, now, recovery, sent, handled, last, brutal>>

NextBft ==
  \/ SetAdministrators
  \/ ExecuteBlock

SpecBft == InitBft /\ [][NextBft]_vars

(***************************************************************************)
(* Properties of the SynchronizationGraph                                  *)
(***************************************************************************)
\* the hashes put on the channel to the Consensus worker, in order
ChannelSent == SelectSeq(sent, LAMBDA e : e.via = "channel")

\* the parent and the referees named by the header of h
Predecessors(h) == {HeaderOf(h).parent_hash} \cup Range(HeaderOf(h).referee_hashes)

\* C1: every hash handed to Consensus (over the channel or, in construction
\* only mode, synchronously) is handed over after its parent and after each of
\* its referees, the pre-inserted genesis block excepted.
C1_SentAfterParentAndReferees ==
  \A i \in 1..Len(sent) :
    \A p \in Predecessors(sent[i].hash) :
      p = GENESIS_HASH \/ \E j \in 1..(i - 1) : sent[j].hash = p

\* a block that references another block was sent third, over the channel
C1_Witness ==
  /\ Len(sent) = 3
  /\ sent[3].via = "channel"
  /\ HeaderOf(sent[3].hash).referee_hashes # <<>>
  /\ sent[3].hash \notin Range(consensus_channel)

\* a block with a referee was applied in construction-only mode
C1_WitnessConstruction ==
  \E i \in 1..Len(sent) :
    sent[i].via = "construction_only" /\ HeaderOf(sent[i].hash).referee_hashes # <<>>

\* C2: the Consensus worker calls on_new_block once for each enqueued hash, in
\* the order of enqueueing: what it has handled is a prefix of what was
\* enqueued, and no enqueued hash is left behind by a worker that is gone.
C2_EveryEnqueuedHashIsHandledInOrder ==
  /\ Len(handled) <= Len(ChannelSent)
  /\ \A i \in 1..Len(handled) : handled[i] = ChannelSent[i].hash
  /\ (consensus_channel # <<>> => worker_alive)

\* the nodes of the graph other than the genesis block
NonGenesisNodes == DOMAIN inner.arena \ {inner.genesis_block_index}

\* the right-hand side of C4 for node h
GraphReadyCondition(arena, h) ==
  /\ arena[h].graph_status >= BLOCK_HEADER_GRAPH_READY
  /\ arena[h].block_ready
  /\ \/ arena[h].parent_reclaimed
     \/ (arena[h].parent # NULL /\ arena[arena[h].parent].graph_status = BLOCK_GRAPH_READY)
  /\ \A i \in 1..Len(arena[h].referees) :
        arena[arena[h].referees[i]].graph_status = BLOCK_GRAPH_READY

\* C4: at the end of every insert_block_header or insert_block call that
\* returned, a node is GRAPH_READY if and only if it is header-graph-ready,
\* has its body, has a GRAPH_READY or reclaimed parent and GRAPH_READY referees.
C4_GraphReadyIffConditions ==
  last.outcome = "returned" =>
    \A h \in NonGenesisNodes :
      (inner.arena[h].graph_status = BLOCK_GRAPH_READY) <=> GraphReadyCondition(inner.arena, h)

Descendants(arena, h) == DescendantsOf(arena, {h}, {})

\* C5: an operation that marks a node INVALID marks all its descendants in
\* the graph INVALID before it ends, and it leaves INVALID every node that
\* was INVALID when it began.
C5_InvalidPropagatesAndIsTerminal ==
  /\ \A h \in last.marked :
       \A d \in Descendants(last.before_removal, h) :
         last.before_removal[d].graph_status = BLOCK_INVALID
  /\ \A h \in last.was_invalid :
       /\ h \in DOMAIN last.before_removal
       /\ last.before_removal[h].graph_status = BLOCK_INVALID
       /\ h \in DOMAIN inner.arena => inner.arena[h].graph_status = BLOCK_INVALID

\* an operation marked a node together with a referrer of it
C5_Witness ==
  \E h \in last.marked :
    \E d \in last.marked : d \in Range(last.before_removal[h].referrers)

\* an insertion that found an INVALID node in the graph and left it there
C5_WitnessTerminal ==
  /\ last.op \in {"insert_block_header", "insert_block"}
  /\ \E h \in last.was_invalid : h \in DOMAIN inner.arena

\* what insert_block_header and insert_block would answer now for hash h
HeaderCallNow(h) == insert_block_header(inner, data_man, HeaderOf(h), TRUE, now)

BlockCallNow(h) == insert_block(inner, data_man, h, "valid", TRUE, FALSE, worker_alive)

\* C6: a block that the last operation marked INVALID is refused by the next
\* insert_block_header and by the next insert_block, and stays out of the graph.
C6_MarkedInvalidIsRefused ==
  \A h \in last.marked :
    /\ ~HeaderCallNow(h).accepted
    /\ h \notin DOMAIN HeaderCallNow(h).inner.arena
    /\ (h \in DOMAIN inner.arena \/ verified_invalid(data_man, h)) => ~BlockCallNow(h).accepted

\* the last call handed a body to verify_block_basic
BodyWasVerified ==
  /\ last.op = "insert_block"
  /\ last.need_to_verify
  /\ last.known /\ ~last.ready /\ ~last.memoized

\* the consequences C7 names for the block of the last call
RefusedInvalidMemoizedTainted ==
  /\ ~last.accepted
  /\ last.before_removal[last.hash].graph_status = BLOCK_INVALID
  /\ verified_invalid(data_man, last.hash)
  /\ \A d \in Descendants(last.before_removal, last.hash) :
       /\ last.before_removal[d].graph_status = BLOCK_INVALID
       /\ d \notin DOMAIN inner.arena

\* C7 as stated: any body that fails verify_block_basic, a transactions-root
\* mismatch included, gets the block refused, marked INVALID, memoized and its
\* descendants tainted.
C7_AnyBadBodyInvalidates ==
  (BodyWasVerified /\ last.body # "valid") => RefusedInvalidMemoizedTainted

\* C7 amended: a body that fails verify_block_basic for a reason other than a
\* transactions-root mismatch gets the block refused, marked INVALID, memoized
\* and its descendants tainted; a transactions-root mismatch gets the block
\* refused only: the call marks no node INVALID and memoizes nothing.
C7_BadBodyInvalidatesExceptRootMismatch ==
  /\ (BodyWasVerified /\ last.body = "bad_other") => RefusedInvalidMemoizedTainted
  /\ (BodyWasVerified /\ last.body = "bad_transactions_root") =>
       /\ ~last.accepted
       /\ last.marked = {}
       /\ ~verified_invalid(data_man, last.hash)
       /\ last.hash \in DOMAIN inner.arena

\* a bad body invalidated a block that had a descendant in the graph
C7_Witness ==
  /\ BodyWasVerified
  /\ last.body = "bad_other"
  /\ Cardinality(last.marked) >= 2

\* a body with a transactions-root mismatch was refused
C7_WitnessRootMismatch ==
  BodyWasVerified /\ last.body = "bad_transactions_root"

(***************************************************************************)
(* Properties of the ConsensusGraph                                        *)
(***************************************************************************)
\* the last block of the pivot chain
PivotTip == consensus.pivot_chain[Len(consensus.pivot_chain)]

PartialInvalid(x) == consensus.arena[x].data.partial_invalid

\* (subtree weight, hash) of a block, as is_heavier compares them
WeightAndHash(x) == <<get(consensus.weight_tree, x), consensus.arena[x].hash>>

\* x and its ancestors in the parent tree
RECURSIVE AncestorsOrSelf(_, _)
AncestorsOrSelf(arena, x) ==
  IF x = NULL THEN {} ELSE {x} \cup AncestorsOrSelf(arena, arena[x].parent)

\* the blocks of the subtree of x in the parent tree
SubtreeOf(arena, x) == {y \in DOMAIN arena : x \in AncestorsOrSelf(arena, y)}

\* the chain from the genesis block that descends to the heaviest child
\* until it reaches a block without children
RECURSIVE HeaviestChain(_)
HeaviestChain(chain) ==
  LET u == chain[Len(chain)]
      children == Range(consensus.arena[u].children)
  IN IF children = {} THEN chain
     ELSE HeaviestChain(
            Append(chain, CHOOSE c \in children :
                            \A d \in children \ {c} :
                              is_heavier(WeightAndHash(c), WeightAndHash(d))))

\* C3 as stated: after every on_new_block the pivot chain is the chain from
\* the genesis block that descends to the heaviest child under is_heavier
\* until it reaches a block without children.
C3_PivotIsHeaviestChain ==
  consensus.pivot_chain = HeaviestChain(<<consensus.genesis_block_index>>)

\* C3 amended: after every on_new_block the pivot chain starts at the genesis
\* block, each of its blocks is a child of the block before it than which no
\* fully valid sibling is heavier under is_heavier, and every child of its
\* last block is partially invalid.
C3_PivotIsHeaviestAmongFullyValid ==
  /\ consensus.pivot_chain[1] = consensus.genesis_block_index
  /\ \A i \in 2..Len(consensus.pivot_chain) :
       /\ consensus.arena[consensus.pivot_chain[i]].parent = consensus.pivot_chain[i - 1]
       /\ \A s \in Range(consensus.arena[consensus.pivot_chain[i - 1]].children) :
            (s # consensus.pivot_chain[i] /\ ~PartialInvalid(s))
              => ~is_heavier(WeightAndHash(s), WeightAndHash(consensus.pivot_chain[i]))
  /\ \A c \in Range(consensus.arena[PivotTip].children) : PartialInvalid(c)

\* the pivot chain forked: it has three blocks and the first of them has a
\* fully valid child off the chain and a partially invalid one
C3_Witness ==
  /\ Len(consensus.pivot_chain) = 2
  /\ \E s \in Range(consensus.arena[consensus.genesis_block_index].children) :
       s # consensus.pivot_chain[2] /\ ~PartialInvalid(s)
  /\ \E c \in Range(consensus.arena[PivotTip].children) : PartialInvalid(c)

\* C8: after every on_new_block the value weight_tree holds for a block is
\* the sum of block_weight over the blocks of its subtree.
C8_WeightTreeIsSubtreeWeight ==
  \A x \in DOMAIN consensus.arena :
    get(consensus.weight_tree, x)
      = SumOver([y \in DOMAIN consensus.arena |-> block_weight(consensus.arena, y, FALSE)],
                SubtreeOf(consensus.arena, x))

\* a subtree of three blocks, one of them partially invalid and one heavy
\* and adaptive
C8_Witness ==
  \E x \in DOMAIN consensus.arena \ {consensus.genesis_block_index} :
    /\ Cardinality(SubtreeOf(consensus.arena, x)) >= 2
    /\ \E y \in SubtreeOf(consensus.arena, x) : PartialInvalid(y)
    /\ get(consensus.weight_tree, x) > 0

\* the blocks reachable from x through parent and referees, x included
PastConeWith(x) == ReachedWithin(consensus.arena, x, DOMAIN consensus.arena)

\* C9 as stated: after every on_new_block every block that is not partially
\* invalid has an epoch number.
C9_FullyValidHasEpoch ==
  \A x \in DOMAIN consensus.arena :
    ~PartialInvalid(x) => consensus.arena[x].data.epoch_number # NULL

\* C9 amended: after every on_new_block the blocks with an epoch number are
\* the last block of the pivot chain and the blocks of its past cone,
\* partially invalid or not; every other block has none.
C9_EpochIffInPastOfPivotTip ==
  \A x \in DOMAIN consensus.arena :
    (consensus.arena[x].data.epoch_number # NULL) <=> (x \in PastConeWith(PivotTip))

\* a fully valid block off the past cone of the pivot tip, and a partially
\* invalid block in it
C9_Witness ==
  /\ \E x \in DOMAIN consensus.arena : ~PartialInvalid(x) /\ x \notin PastConeWith(PivotTip)
  /\ \E x \in PastConeWith(PivotTip) : PartialInvalid(x)

\* the blocks of ordered_epoch_blocks of the pivot block at position i
EpochBlocks(i) == Range(consensus.arena[consensus.pivot_chain[i]].data.ordered_epoch_blocks)

EpochsDisjoint ==
  \A i, j \in 1..Len(consensus.pivot_chain) :
    i # j => EpochBlocks(i) \cap EpochBlocks(j) = {}

\* C10 as stated: after every on_new_block the ordered_epoch_blocks of the
\* blocks of the pivot chain are pairwise disjoint and their union is the set
\* of the blocks other than the genesis block.
C10_EpochsPartitionAllBlocks ==
  /\ EpochsDisjoint
  /\ UNION {EpochBlocks(i) : i \in 2..Len(consensus.pivot_chain)}
       = DOMAIN consensus.arena \ {consensus.genesis_block_index}

\* C10 amended: after every on_new_block the ordered_epoch_blocks of the
\* blocks of the pivot chain are pairwise disjoint and their union is the
\* last block of the pivot chain with its past cone, the genesis block (the
\* only block of its own list) included.
C10_EpochsPartitionPastOfPivotTip ==
  /\ EpochsDisjoint
  /\ UNION {EpochBlocks(i) : i \in 1..Len(consensus.pivot_chain)} = PastConeWith(PivotTip)

\* a pivot block whose epoch holds another block, and a block in no epoch
C10_Witness ==
  /\ \E i \in 2..Len(consensus.pivot_chain) : Cardinality(EpochBlocks(i)) >= 2
  /\ PastConeWith(PivotTip) # DOMAIN consensus.arena

\* C11: after any sequence of on_new_block calls no block of the pivot chain
\* is flagged partial_invalid.
C11_NoPartialInvalidOnPivot ==
  \A i \in 1..Len(consensus.pivot_chain) : ~PartialInvalid(consensus.pivot_chain[i])

\* the hashes on_new_block can be called with next
Pending ==
  {h \in DOMAIN block_table \ DOMAIN consensus.arena : CanInsert(consensus, HeaderOf(h))}

\* the parent-selection, difficulty, adaptive-field and deferred-root checks
\* of check_block_full_validity, on the graph ci in which the block of
\* header has been inserted and linked
OtherChecksWith(ci, header, anticone_barrier, sa) ==
  /\ check_correct_parent(ci, header.hash, anticone_barrier)
  /\ ci.arena[header.hash].difficulty
       = expected_difficulty(ci, ci.arena[header.hash].parent)
  /\ bench_mode \/ ci.arena[header.hash].adaptive = sa.adaptive
  /\ header.deferred_ok

OtherChecksOn(ci, header, anticone_barrier) ==
  OtherChecksWith(ci, header, anticone_barrier,
                  adaptive_weight(ci, header.hash, anticone_barrier))

OtherChecksAfter(ci, header) ==
  OtherChecksOn(update_lcts_initial(ci, header.hash), header,
                anticone_barrier_of(ci.arena, ci.anticone_cache[header.hash]))

OtherChecks(header) ==
  OtherChecksAfter(compute_anticone(consensus_insert(consensus, header), header.hash),
                   header)

\* C12 as stated: a block whose parent is partial_invalid and which passes
\* the parent-selection, difficulty, adaptive-field and deferred-root checks
\* is accepted as fully valid by on_new_block.
C12_ChildOfPartialInvalidIsEligible ==
  \A h \in Pending :
    (PartialInvalid(HeaderOf(h).parent_hash) /\ OtherChecks(HeaderOf(h)))
      => on_new_block(consensus, HeaderOf(h)).fully_valid

\* C12, amended: every block whose parent is partial_invalid is flagged
\* partial_invalid itself, whatever its other checks say.
C12_ChildOfPartialInvalidIsPartialInvalid ==
  \A x \in DOMAIN consensus.arena :
    (consensus.arena[x].parent # NULL /\ PartialInvalid(consensus.arena[x].parent))
      => PartialInvalid(x)

\* a block with a partial_invalid parent has been handled, and it passes the
\* other checks: it has no block in its own epoch set to compete with its
\* parent, the initial difficulty, no adaptive flag and right deferred roots
C12_Witness ==
  \E x \in DOMAIN consensus.arena :
    /\ consensus.arena[x].parent # NULL
    /\ PartialInvalid(consensus.arena[x].parent)
    /\ PartialInvalid(x)
    /\ consensus.arena[x].data.blockset_in_own_view_of_epoch = {}
    /\ consensus.arena[x].difficulty = initial_difficulty
    /\ ~HeaderOf(x).adaptive /\ ~consensus.arena[x].adaptive
    /\ HeaderOf(x).deferred_ok

\* the parent of me lies on a branch strictly lighter than the branch of a
\* block of the epoch set of me that is not partial_invalid; tree is the
\* weight tree without the anticone of me
LighterParentOn(tree, arena, me, parent) ==
  \E index \in arena[me].data.blockset_in_own_view_of_epoch :
    /\ ~arena[index].data.partial_invalid
    /\ lca(tree, index, parent) # parent
    /\ get(tree, ancestor_at(tree, index, arena[lca(tree, index, parent)].height + 1))
         > get(tree, ancestor_at(tree, parent, arena[lca(tree, index, parent)].height + 1))

LighterParentIn(ci, me, anticone_barrier) ==
  LighterParentOn(RemoveAnticoneWeight(ci.weight_tree, ci.weight_tree, anticone_barrier),
                  ci.arena, me, ci.arena[me].parent)

LighterParentAfter(ci, me) ==
  LighterParentIn(update_lcts_initial(ci, me), me,
                  anticone_barrier_of(ci.arena, ci.anticone_cache[me]))

\* the block of header, not inserted yet, has its parent on a lighter branch
LighterParent(header) ==
  LighterParentAfter(compute_anticone(consensus_insert(consensus, header), header.hash),
                     header.hash)

\* the outcome r of on_new_block for h: h is flagged, weighs 0, and the
\* weight tree holds 0 for h and what it held before for every other block
FlaggedAndWeightless(h, r) ==
  /\ ~r.fully_valid
  /\ r.ci.arena[h].data.partial_invalid
  /\ block_weight(r.ci.arena, h, FALSE) = 0
  /\ \A x \in DOMAIN r.ci.arena :
       get(r.ci.weight_tree, x) = IF x = h THEN 0 ELSE get(consensus.weight_tree, x)

\* the blocks strictly in the past cone of x
StrictPast(x) == PastConeWith(x) \ {x}

\* the weight of y when it is counted whatever its flag
InclusiveWeight(y) == block_weight(consensus.arena, y, TRUE)

OrderedEpochBlocks(p) == consensus.arena[p].data.ordered_epoch_blocks

BlocksetInOwnView(p) == consensus.arena[p].data.blockset_in_own_view_of_epoch

\* C14: for every block p, ordered_epoch_blocks holds exactly the blocks of
\* blockset_in_own_view_of_epoch and p, each once, every block after its
\* parent and after its referees that are in the list, and p last.
C14_OrderedEpochBlocksIsTopologicalOrder ==
  \A p \in DOMAIN consensus.arena :
    /\ Range(OrderedEpochBlocks(p)) = BlocksetInOwnView(p) \cup {p}
    /\ Len(OrderedEpochBlocks(p)) = Cardinality(BlocksetInOwnView(p)) + 1
    /\ OrderedEpochBlocks(p)[Len(OrderedEpochBlocks(p))] = p
    /\ \A i, j \in 1..Len(OrderedEpochBlocks(p)) :
         OrderedEpochBlocks(p)[j] \in Preds(consensus.arena, OrderedEpochBlocks(p)[i])
           => j < i

\* a block whose epoch set holds a block together with its parent or with
\* one of its referees, so that the order of the list matters
C14_Witness ==
  \E p \in DOMAIN consensus.arena : \E x \in BlocksetInOwnView(p) :
    Preds(consensus.arena, x) \cap BlocksetInOwnView(p) # {}

\* C15: the past_weight of every inserted block is the sum of block_weight
\* over the blocks strictly in its past cone.
C15_PastWeightIsWeightOfPastCone ==
  \A x \in DOMAIN consensus.arena :
    consensus.arena[x].past_weight
      = SumOver([y \in DOMAIN consensus.arena |-> block_weight(consensus.arena, y, FALSE)],
                StrictPast(x))

\* a block whose past cone holds a block that is not one of its ancestors
\* and a block that weighs nothing
C15_Witness ==
  \E x \in DOMAIN consensus.arena :
    /\ StrictPast(x) \ AncestorsOrSelf(consensus.arena, x) # {}
    /\ \E y \in StrictPast(x) : block_weight(consensus.arena, y, FALSE) = 0
    /\ consensus.arena[x].past_weight > initial_difficulty

\* the result r of insert_block_header is (true, []) and r leaves the graph
\* and the data manager as they are
HeaderCallIsNoOp(r) ==
  /\ r.accepted
  /\ r.to_relay = <<>>
  /\ r.inner = inner
  /\ r.data_man = data_man

\* the result r of insert_block is (true, false), r sends nothing to
\* Consensus and leaves the graph and the data manager as they are
BlockCallIsNoOp(r) ==
  /\ r.outcome = "returned"
  /\ r.accepted
  /\ ~r.need_to_relay
  /\ r.sends = <<>>
  /\ r.inner = inner
  /\ r.data_man = data_man

\* C16: insert_block_header with a hash that is already in the graph, and
\* insert_block with a hash whose body is already there, return accepted =
\* true with nothing to relay and change neither the graph nor the hashes
\* sent to Consensus.
C16_ReinsertionIsNoOp ==
  \A hash \in Submittable :
    /\ hash \in DOMAIN inner.arena
         => \A need_to_verify \in BOOLEAN :
              HeaderCallIsNoOp(insert_block_header(inner, data_man, HeaderOf(hash),
                                                   need_to_verify, now))
    /\ (hash \in DOMAIN inner.arena /\ inner.arena[hash].block_ready)
         => \A body \in BodyKinds, need_to_verify \in BOOLEAN :
              BlockCallIsNoOp(insert_block(inner, data_man, hash, body, need_to_verify,
                                           FALSE, worker_alive))

\* a block whose body is in the graph and has been sent to Consensus, with
\* a block that has its header only, while peers can submit both again
C16_Witness ==
  /\ recovery.phase = "done"
  /\ \E hash \in Submittable :
       /\ hash \in DOMAIN inner.arena
       /\ inner.arena[hash].block_ready
       /\ \E i \in 1..Len(sent) : sent[i].hash = hash
  /\ \E hash \in Submittable :
       hash \in DOMAIN inner.arena /\ ~inner.arena[hash].block_ready

\* C17: the stable and adaptive flags of a block that is in the consensus
\* graph are the same after every later step.
C17_StableAndAdaptiveAreFixed ==
  [][\A x \in DOMAIN consensus.arena :
       /\ consensus'.arena[x].stable = consensus.arena[x].stable
       /\ consensus'.arena[x].adaptive = consensus.arena[x].adaptive]_vars

\* a block with the adaptive flag and one that is not stable were handled,
\* and the pivot chain was reorganised by a block handled after them
C17_Witness ==
  /\ Len(handled) >= 2
  /\ \E i \in 1..(Len(handled) - 1) : consensus.arena[handled[i]].adaptive
  /\ \E i \in 1..(Len(handled) - 1) : ~consensus.arena[handled[i]].stable
  /\ PivotTip = handled[Len(handled)]
  /\ consensus.arena[PivotTip].parent # handled[Len(handled) - 1]

\* the child header was verified and accepted
ChildAccepted == last.op = "verify_header_graph_ready_block" /\ last.accepted

FirstPeriod(height) == height < difficulty_adjustment_epoch_period

AtPeriodBoundary(height) ==
  /\ ~FirstPeriod(height)
  /\ (height \div difficulty_adjustment_epoch_period) * difficulty_adjustment_epoch_period
       = height

\* C18 as stated: header verification accepts a block only if its
\* difficulty is the initial difficulty during the first period, the
\* parent's difficulty when the parent is not at a period boundary, and
\* target_difficulty when the parent is at a period boundary.
C18_AcceptedDifficultyIsTarget ==
  ChildAccepted =>
    HeaderOf(CHILD).difficulty =
      IF FirstPeriod(HeaderOf(PARENT).height) THEN initial_difficulty
      ELSE IF AtPeriodBoundary(HeaderOf(PARENT).height) THEN target_difficulty(PARENT)
      ELSE HeaderOf(PARENT).difficulty

\* C18, amended: header verification accepts a block only if its difficulty
\* is the initial difficulty during the first period, the parent's
\* difficulty when the parent is not at a period boundary, and a value
\* within get_adjustment_bound of the parent's difficulty when the parent
\* is at a period boundary.
C18_AcceptedDifficultyIsWithinBound ==
  ChildAccepted =>
    IF FirstPeriod(HeaderOf(PARENT).height)
      THEN HeaderOf(CHILD).difficulty = initial_difficulty
    ELSE IF AtPeriodBoundary(HeaderOf(PARENT).height)
      THEN /\ HeaderOf(CHILD).difficulty
                >= get_adjustment_bound(HeaderOf(PARENT).difficulty)[1]
           /\ HeaderOf(CHILD).difficulty
                <= get_adjustment_bound(HeaderOf(PARENT).difficulty)[2]
    ELSE HeaderOf(CHILD).difficulty = HeaderOf(PARENT).difficulty

\* a child of a parent at a period boundary was accepted with a difficulty
\* that is neither its parent's nor the target
C18_Witness ==
  /\ ChildAccepted
  /\ AtPeriodBoundary(HeaderOf(PARENT).height)
  /\ HeaderOf(CHILD).difficulty # target_difficulty(PARENT)
  /\ HeaderOf(CHILD).difficulty # HeaderOf(PARENT).difficulty

\* the block at index x is fully valid, not adaptive, and has no referee
PlainLink(x) ==
  /\ ~PartialInvalid(x)
  /\ ~consensus.arena[x].adaptive
  /\ consensus.arena[x].referees = <<>>

\* genesis -> a -> b -> c is a chain of such blocks
LinearChain(a, b, c) ==
  /\ consensus.arena[a].parent = consensus.genesis_block_index
  /\ consensus.arena[b].parent = a
  /\ consensus.arena[c].parent = b
  /\ PlainLink(a) /\ PlainLink(b) /\ PlainLink(c)

\* C19 as stated: at the end of a linear chain G -> A -> B -> C of fully
\* valid, non-adaptive blocks, past_weight(C) = difficulty(A) + difficulty(B).
C19_PastWeightOfChainWithoutGenesis ==
  \A a, b, c \in DOMAIN consensus.arena :
    LinearChain(a, b, c)
      => consensus.arena[c].past_weight
           = consensus.arena[a].difficulty + consensus.arena[b].difficulty

\* C19, amended: at the end of such a chain, past_weight(C) =
\* difficulty(G) + difficulty(A) + difficulty(B).
C19_PastWeightOfChainWithGenesis ==
  \A a, b, c \in DOMAIN consensus.arena :
    LinearChain(a, b, c)
      => consensus.arena[c].past_weight
           = consensus.arena[consensus.genesis_block_index].difficulty
             + consensus.arena[a].difficulty + consensus.arena[b].difficulty

\* the three blocks of such a chain have been handled, in order, and
\* nothing else
C19_Witness ==
  /\ Len(handled) = 3
  /\ LinearChain(handled[1], handled[2], handled[3])

\* the worker left its loop at Err(_) => break
ObservedClosed == handled # <<>> /\ handled[Len(handled)] = Disconnected

\* C20: once the sender is dropped, a Consensus Worker thread that is no
\* longer in its receive loop has left it by observing the closed channel
\* (a thread that left it in another way never observes it).
C20_WorkerStopsByObservingClosedChannel ==
  (SenderDropped /\ ~worker_alive) => ObservedClosed

\* the sender was dropped with hashes still queued, the worker handled
\* them and left its loop at the closed channel
C20_ObservedAfterDraining ==
  /\ ObservedClosed
  /\ Len(handled) >= 2
  /\ \E i \in 1..Len(sent) : sent[i].hash = handled[Len(handled) - 1]

\* C23: every hash sent over the channel has its body in the data manager
\* when the call that sends it ends, and block_ready is set only for nodes
\* whose body is stored.
C23_SentBodyIsStored ==
  [][/\ \A i \in (Len(sent) + 1)..Len(sent') :
          sent'[i].via = "channel" => sent'[i].hash \in data_man'.blocks
     /\ \A h \in DOMAIN inner'.arena :
          inner'.arena[h].block_ready => h \in data_man'.blocks]_vars

\* C25: no hash is handed to Consensus twice, over the channel or in
\* construction-only mode.
C25_SentAtMostOnce ==
  \A i, j \in 1..Len(sent) : sent[i].hash = sent[j].hash => i = j

\* C26: a node that is BLOCK_GRAPH_READY stays in the graph and stays
\* BLOCK_GRAPH_READY through every later operation.
C26_GraphReadyIsFinal ==
  [][\A h \in DOMAIN inner.arena :
       inner.arena[h].graph_status = BLOCK_GRAPH_READY
         => /\ h \in DOMAIN inner'.arena
            /\ inner'.arena[h].graph_status = BLOCK_GRAPH_READY]_vars

\* a block was sent in the call that made one of its referees graph-ready,
\* after its parent had been sent in an earlier call
C25_Witness ==
  \E i \in 2..Len(sent) :
    /\ sent[i].via = "channel"
    /\ HeaderOf(sent[i].hash).referee_hashes # <<>>
    /\ sent[i - 1].hash \in Range(HeaderOf(sent[i].hash).referee_hashes)
    /\ last.op = "insert_block" /\ last.hash = sent[i - 1].hash

\* nodes were removed by remove_expire_blocks, or marked BLOCK_INVALID by
\* an insertion, while a block sent to Consensus is in the graph
C26_Witness ==
  /\ \/ last.op = "remove_expire_blocks" /\ DOMAIN last.before_removal # DOMAIN inner.arena
     \/ last.marked # {}
  /\ \E i \in 1..Len(sent) :
       /\ sent[i].hash \in DOMAIN inner.arena
       /\ inner.arena[sent[i].hash].graph_status = BLOCK_GRAPH_READY

\* the pivot blocks at the heights below i - 1, where i is a position of
\* pivot_chain
EarlierPivots(i) == {consensus.pivot_chain[j] : j \in 1..(i - 1)}

\* C30: for every pivot block p, blockset_in_own_view_of_epoch[p] is the set
\* of the blocks of the past cone of p that are neither a pivot block at a
\* lower height nor in the past cone of one.
C30_BlocksetOfPivotBlock ==
  \A i \in 1..Len(consensus.pivot_chain) :
    BlocksetInOwnView(consensus.pivot_chain[i])
      = StrictPast(consensus.pivot_chain[i])
          \ UNION {PastConeWith(q) : q \in EarlierPivots(i)}

\* a pivot block above the genesis block was inserted off the pivot chain
\* and has a block in its set that is not one of its ancestors
C30_Witness ==
  \E i \in 2..Len(consensus.pivot_chain) :
    /\ BlocksetInOwnView(consensus.pivot_chain[i]) # {}
    /\ \E k \in 1..Len(handled) :
         /\ handled[k] = consensus.pivot_chain[i]
         /\ \E j \in 1..(k - 1) :
              /\ HeaderOf(handled[j]).height >= HeaderOf(handled[k]).height
              /\ handled[j] \notin BlocksetInOwnView(consensus.pivot_chain[i])

\* the first position at which the pivot chain new leaves the pivot chain
\* old, 0 when old is a prefix of new
ForkPosition(old, new) ==
  LET left == {i \in 1..Len(old) : i > Len(new) \/ old[i] # new[i]}
  IN IF left = {} THEN 0 ELSE MinOf(left)

\* the blocks of ci whose epoch_number is at least f
EpochAtLeast(ci, f) ==
  {x \in DOMAIN ci.arena : /\ ci.arena[x].data.epoch_number # NULL
                           /\ ci.arena[x].data.epoch_number >= f}

\* the pivot blocks of ci and the blocks of their past cones
PastOfPivotChain(ci) ==
  UNION {ReachedWithin(ci.arena, q, DOMAIN ci.arena) : q \in Range(ci.pivot_chain)}

\* what C29 states of a call that takes before to after and makes the pivot
\* chain fork at the position pos, the height pos - 1
EpochsAfterFork(before, after, pos) ==
  \A x \in EpochAtLeast(before, pos - 1) :
    /\ ClearEpochs(before, before.pivot_chain[Len(before.pivot_chain)], pos - 1)
         .arena[x].data.epoch_number = NULL
    /\ (after.arena[x].data.epoch_number # NULL) <=> (x \in PastOfPivotChain(after))

\* C29: when an insertion makes the pivot chain fork at height f, every
\* block whose epoch_number was at least f has it cleared, and has an
\* epoch_number after the call exactly when it is a block of the new pivot
\* chain or lies in the past cone of one.
C29_EpochsClearedAndReassignedAtFork ==
  [][ForkPosition(consensus.pivot_chain, consensus'.pivot_chain) # 0
       => EpochsAfterFork(consensus, consensus',
                          ForkPosition(consensus.pivot_chain, consensus'.pivot_chain))]_vars

\* on_new_block for the block k of handled, from prev
ReplayStep(prev, k) ==
  IF prev.pivot_chain = <<>> THEN prev
  ELSE on_new_block(prev, HeaderOf(handled[k])).ci

\* the ConsensusGraphInner after the first k blocks of handled
RECURSIVE ReplayHandled(_)
ReplayHandled(k) ==
  IF k = 0 THEN consensus_with_genesis_block(genesis_header)
  ELSE ReplayStep(ReplayHandled(k - 1), k)

\* before is the ConsensusGraphInner the last call started from: the call
\* made the pivot chain fork, one block that had an epoch_number at the fork
\* height or above has none now, and another one, which is not a pivot block,
\* was given one again
ForkedFrom(before) ==
  LET pos == ForkPosition(before.pivot_chain, consensus.pivot_chain)
  IN /\ pos # 0
     /\ \E x, y \in EpochAtLeast(before, pos - 1) :
          /\ consensus.arena[x].data.epoch_number = NULL
          /\ consensus.arena[y].data.epoch_number # NULL
          /\ y \notin Range(consensus.pivot_chain)

C29_Witness ==
  /\ handled # <<>>
  /\ ForkedFrom(ReplayHandled(Len(handled) - 1))

\* the heights of the tasks that the call from before to after enqueued, in
\* the order of the queue
NewTaskHeights(before, after) ==
  [i \in 1..(Len(after.executor) - Len(before.executor)) |->
     after.arena[after.executor[Len(before.executor) + i].epoch_hash].height]

\* fork_at of the call that took the pivot chain old to new
ForkAt(old, new) ==
  IF ForkPosition(old, new) # 0 THEN ForkPosition(old, new) - 1 ELSE Len(old)

\* the heights h >= 1 below bound - DEFERRED_STATE_EPOCH_COUNT that the call
\* settled: the pivot block at h is new, or the old pivot chain was too short
\* for h to be executed
SettledHeights(before, after, bound) ==
  {h \in 1..(Len(after.pivot_chain) - 1) :
     /\ \/ h >= ForkAt(before.pivot_chain, after.pivot_chain)
        \/ h + DEFERRED_STATE_EPOCH_COUNT > Len(before.pivot_chain)
     /\ h + DEFERRED_STATE_EPOCH_COUNT < bound}

\* the call from before to after enqueued one task with on_local_pivot for
\* each height of SettledHeights, for the pivot block at that height, and no
\* other task
TasksAreSettledHeights(before, after, bound) ==
  /\ Range(NewTaskHeights(before, after)) = SettledHeights(before, after, bound)
  /\ Len(NewTaskHeights(before, after)) = Cardinality(SettledHeights(before, after, bound))
  /\ \A i \in (Len(before.executor) + 1)..Len(after.executor) :
       /\ after.executor[i].on_local_pivot
       /\ after.executor[i].epoch_hash \in Range(after.pivot_chain)

\* the call from before to after inserted a fully valid block
InsertedFullyValid(before, after) ==
  \E x \in DOMAIN after.arena \ DOMAIN before.arena :
    ~after.arena[x].data.partial_invalid

\* C27 as stated: an on_new_block call that inserts a fully valid block
\* sends a task with on_local_pivot for exactly the newly settled heights h
\* with h + DEFERRED_STATE_EPOCH_COUNT < pivot_chain.len().
C27_TasksForHeightsBelowLength ==
  [][InsertedFullyValid(consensus, consensus')
       => TasksAreSettledHeights(consensus, consensus',
                                 Len(consensus'.pivot_chain))]_vars

\* C27 amended: an on_new_block call that inserts a fully valid block sends
\* a task with on_local_pivot for exactly the newly settled heights h with
\* h + DEFERRED_STATE_EPOCH_COUNT <= pivot_chain.len().
C27_TasksForHeightsUpToLength ==
  [][InsertedFullyValid(consensus, consensus')
       => TasksAreSettledHeights(consensus, consensus',
                                 Len(consensus'.pivot_chain) + 1)]_vars

\* the last call, from before, inserted a fully valid block, made the pivot
\* chain fork and enqueued more than one task
EnqueuedAtFork(before) ==
  /\ InsertedFullyValid(before, consensus)
  /\ ForkPosition(before.pivot_chain, consensus.pivot_chain) # 0
  /\ Len(NewTaskHeights(before, consensus)) > 1

C27_Witness ==
  /\ handled # <<>>
  /\ EnqueuedAtFork(ReplayHandled(Len(handled) - 1))

\* C28: for every height h >= 1 with h + DEFERRED_STATE_EPOCH_COUNT <
\* pivot_chain.len(), a task for the pivot block at h has been enqueued.
C28_PivotEpochsBelowLengthEnqueued ==
  \A h \in 1..(Len(consensus.pivot_chain) - 1) :
    h + DEFERRED_STATE_EPOCH_COUNT < Len(consensus.pivot_chain)
      => \E i \in 1..Len(consensus.executor) :
           consensus.executor[i].epoch_hash = consensus.arena[At(consensus.pivot_chain, h)].hash

\* the pivot chain is long enough for an epoch to be covered, a
\* partial_invalid block was inserted, and a height was executed for two
\* different pivot blocks
C28_Witness ==
  /\ Len(consensus.pivot_chain) > DEFERRED_STATE_EPOCH_COUNT + 1
  /\ \E x \in DOMAIN consensus.arena : consensus.arena[x].data.partial_invalid
  /\ \E i, j \in 1..Len(consensus.executor) :
       /\ consensus.executor[i].epoch_hash # consensus.executor[j].epoch_hash
       /\ consensus.arena[consensus.executor[i].epoch_hash].height
            = consensus.arena[consensus.executor[j].epoch_hash].height

(***************************************************************************)
(* Properties of the BFT block executor                                    *)
(***************************************************************************)
\* the transactions of the block that are not block metadata
Admitted == SelectSeq(bft.transactions, LAMBDA t : t.kind # "BlockMetadata")

\* t passes the signature check and, if of admin type, the quorum check
PassesChecks(t) ==
  t.kind = "UserTransaction"
    => /\ t.signature_ok
       /\ t.admin_type => /\ bft.administrators.is_some
                          /\ check_voting_power(bft.administrators, t.signers) = "Ok"

\* a block of at most two transactions, each admitted one with exactly one
\* event and passing the checks
WellFormedBlock ==
  /\ Len(bft.transactions) <= 2
  /\ \A i \in 1..Len(Admitted) :
       Len(Admitted[i].events) = 1 /\ PassesChecks(Admitted[i])

\* the event can be processed: it decodes if it has one of the two keys,
\* and a proposal is for the current epoch
EventProcessable(e) ==
  /\ e.key \in {validator_set_change_event_key, pivot_select_event_key} => e.decodes
  /\ e.key = validator_set_change_event_key => e.this_epoch = bft.current_epoch

\* C21 as stated: execute_block succeeds on every block of at most two
\* transactions in which each admitted transaction carries exactly one
\* contract event and passes the signature and admin-quorum checks.
C21_WellFormedBlockSucceeds ==
  bft.returned /\ WellFormedBlock => bft.output.ok

\* C21 amended: execute_block succeeds on such a block when at most one of
\* its transactions is not block metadata, a user transaction has a
\* write-set payload, and the event decodes and, if it is a
\* ValidatorSetChange proposal, is for the current epoch.
C21_WellFormedBlockOfOneOutputSucceeds ==
  /\ bft.returned
  /\ WellFormedBlock
  /\ Len(Admitted) <= 1
  /\ \A i \in 1..Len(Admitted) :
       /\ Admitted[i].kind = "UserTransaction" => Admitted[i].payload = "WriteSet"
       /\ EventProcessable(Admitted[i].events[1])
  => bft.output.ok

\* a block of a block metadata and a user transaction of admin type was
\* executed and set the next validator set
C21_Witness ==
  /\ bft.returned
  /\ WellFormedBlock
  /\ Len(bft.transactions) = 2
  /\ Len(Admitted) = 1
  /\ Admitted[1].kind = "UserTransaction" /\ Admitted[1].admin_type
  /\ bft.output.ok
  /\ bft.output.next_validator_set # NULL

\* the ValidatorSetChange events of the block that decode
Proposals ==
  {e \in UNION {Range(bft.transactions[i].events) : i \in 1..Len(bft.transactions)} :
     e.key = validator_set_change_event_key /\ e.decodes}

\* the block passes every check of execute_block but that of the epoch, and
\* its one event is a ValidatorSetChange proposal that decodes
OneProposalBlock ==
  /\ WellFormedBlock
  /\ Len(Admitted) = 1
  /\ Admitted[1].kind = "UserTransaction" => Admitted[1].payload = "WriteSet"
  /\ Admitted[1].events[1] \in Proposals

\* C22 as stated: for a block carrying a ValidatorSetChange event,
\* execute_block returns an output, and the next_validator_set of the
\* output is set if and only if current_epoch equals the this_epoch of the
\* proposal.
C22_NextValidatorSetIffEpoch ==
  bft.returned /\ OneProposalBlock
    => /\ bft.output.ok
       /\ (bft.output.next_validator_set # NULL)
            <=> (bft.current_epoch = Admitted[1].events[1].this_epoch)

\* C22 amended: for such a block execute_block returns an output with
\* next_validator_set set to the proposed set when current_epoch equals
\* this_epoch, and fails with "Wrong epoch proposal." otherwise.
C22_NextValidatorSetOrWrongEpoch ==
  bft.returned /\ OneProposalBlock
    => IF bft.current_epoch = Admitted[1].events[1].this_epoch
         THEN /\ bft.output.ok
              /\ bft.output.next_validator_set = Admitted[1].events[1].value
         ELSE /\ ~bft.output.ok
              /\ bft.output.error = "Wrong epoch proposal."

\* a proposal for another epoch was refused
C22_Witness ==
  /\ bft.returned
  /\ OneProposalBlock
  /\ bft.current_epoch # Admitted[1].events[1].this_epoch
  /\ ~bft.output.ok

\* the header of x is valid and in the graph, the parent and the referees of
\* x are BLOCK_GRAPH_READY, and x is not: the valid body of x is all that
\* is missing
AwaitsBody(x) ==
  /\ recovery.phase = "done"
  /\ worker_alive
  /\ x \in DOMAIN inner.arena
  /\ inner.arena[x].graph_status = BLOCK_HEADER_GRAPH_READY
  /\ \A p \in Predecessors(x) :
       p \in DOMAIN inner.arena /\ inner.arena[p].graph_status = BLOCK_GRAPH_READY

\* insert_block(x) with the valid body makes x BLOCK_GRAPH_READY and sends it
ValidBodyCompletes(x, r) ==
  /\ r.inner.arena[x].graph_status = BLOCK_GRAPH_READY
  /\ x \in Range(r.sends)

\* C24: once the valid headers of a block and of its ancestors and the
\* valid bodies of the ancestors are in, inserting the valid body of the
\* block makes it BLOCK_GRAPH_READY and sends it to Consensus, whatever
\* submissions for it were rejected before.  No later call looks at the
\* block again, so a block this fails for never becomes BLOCK_GRAPH_READY.
C24_ValidBodyMakesGraphReady ==
  \A x \in Submittable :
    AwaitsBody(x)
      => ValidBodyCompletes(x, insert_block(inner, data_man, x, "valid", TRUE, FALSE,
                                           worker_alive))

\* C31: a block has epoch_number = h if and only if it is an element of
\* ordered_epoch_blocks of the pivot block at height h.
C31_EpochNumberIsEpochList ==
  \A x \in DOMAIN consensus.arena : \A h \in 0..(Len(consensus.pivot_chain) - 1) :
    (consensus.arena[x].data.epoch_number = h)
      <=> (x \in Range(OrderedEpochBlocks(At(consensus.pivot_chain, h))))

\* after a call of on_new_block an epoch holds a block that is not its pivot
\* block, and a block outside the past of the pivot chain has no epoch
C31_Witness ==
  /\ handled # <<>>
  /\ \E h \in 1..(Len(consensus.pivot_chain) - 1) :
       \E x \in DOMAIN consensus.arena \ Range(consensus.pivot_chain) :
         /\ consensus.arena[x].data.epoch_number = h
         /\ Len(OrderedEpochBlocks(At(consensus.pivot_chain, h))) >= 2
  /\ \E y \in DOMAIN consensus.arena : consensus.arena[y].data.epoch_number = NULL

\* the six link-cut trees of a ConsensusGraphInner
SixTrees(ci) ==
  <<ci.weight_tree, ci.inclusive_weight_tree, ci.stable_weight_tree,
    ci.stable_tree, ci.adaptive_tree, ci.inclusive_adaptive_tree>>

\* the blocks a block of the consensus graph can have in an anticone barrier
BarrierChoices == SUBSET (DOMAIN consensus.arena \ {consensus.genesis_block_index})

\* C32: adaptive_weight and check_correct_parent leave every value of each
\* of the six link-cut trees as it was before the call, for any anticone
\* barrier, also when check_correct_parent stops at a failed comparison.
C32_TreesAreRestored ==
  \A me \in DOMAIN consensus.arena \ {consensus.genesis_block_index} :
    \A anticone_barrier \in BarrierChoices :
      /\ SixTrees(adaptive_weight_leaves(consensus, me, anticone_barrier))
           = SixTrees(consensus)
      /\ check_correct_parent_leaves(consensus, me, anticone_barrier)
           = consensus.weight_tree

\* a block with an anticone barrier whose removal changes the trees, and for
\* which check_correct_parent stops at a failed comparison
C32_Witness ==
  /\ handled # <<>>
  /\ \E me \in DOMAIN consensus.arena \ {consensus.genesis_block_index} :
       LET anticone_barrier ==
             anticone_barrier_of(consensus.arena, consensus.anticone_cache[me])
       IN /\ anticone_barrier # {}
          /\ SixTrees(RemoveAnticone(consensus, consensus, anticone_barrier))
               # SixTrees(consensus)
          /\ ~check_correct_parent(consensus, me, anticone_barrier)

\* the two computations of the anticone of me on the state st that has me
\* in the arena
AnticonesAgree(st, me) == anticone_of(st, me) = compute_anticone_bruteforce(st, me)

\* C33: for every block that on_new_block inserts, the anticone that
\* compute_anticone derives from the cached anticone of the parent is the
\* anticone that compute_anticone_bruteforce computes on the same graph.
C33_AnticoneIsBruteforce ==
  \A h \in Pending : AnticonesAgree(consensus_insert(consensus, HeaderOf(h)), h)

\* the anticone of a block about to be inserted holds a block of an epoch
\* and a block of no epoch, and the past of the block reaches beyond the
\* genesis block on the pivot chain
MixedAnticone(st, me) ==
  /\ LastPivotOfPreds(st.arena, me) >= 1
  /\ \E x, y \in anticone_of(st, me) :
       /\ st.arena[x].data.epoch_number # NULL
       /\ st.arena[y].data.epoch_number = NULL

C33_Witness ==
  /\ handled # <<>>
  /\ \E h \in Pending : MixedAnticone(consensus_insert(consensus, HeaderOf(h)), h)

\* the ConsensusGraphInner on which on_new_block runs its checks of the
\* block h: h is in the arena, its anticone is cached and it is linked into
\* the trees
AtChecks(h) ==
  update_lcts_initial(compute_anticone(consensus_insert(consensus, HeaderOf(h)), h), h)

BarrierAtChecks(st, h) == anticone_barrier_of(st.arena, st.anticone_cache[h])

\* a refusal of preliminary_check_validity is a refusal of
\* check_correct_parent
PreliminaryImpliesParent(st, h) ==
  ~preliminary_check_validity(st, h)
    => ~check_correct_parent(st, h, BarrierAtChecks(st, h))

\* a refusal of preliminary_check_validity is a refusal of
\* check_block_full_validity
PreliminaryImpliesFull(st, h, adaptive) ==
  ~preliminary_check_validity(st, h)
    => /\ ~check_block_full_validity(st, h, HeaderOf(h), adaptive, BarrierAtChecks(st, h))
       /\ \/ st.arena[st.arena[h].parent].data.partial_invalid
          \/ ~check_correct_parent(st, h, BarrierAtChecks(st, h))

RefusedEarly(st, h) == ~preliminary_check_validity(st, h)

C34_WitnessInvalidParent ==
  /\ handled # <<>>
  /\ \E h \in Pending :
       /\ RefusedEarly(AtChecks(h), h)
       /\ check_correct_parent(AtChecks(h), h, BarrierAtChecks(AtChecks(h), h))

\* the headers of the graph that are BLOCK_HEADER_GRAPH_READY or above
HeaderReadyNodes ==
  {x \in NonGenesisNodes : inner.arena[x].graph_status >= BLOCK_HEADER_GRAPH_READY}

\* C35: every header that was inserted with need_to_verify = true and is at
\* BLOCK_HEADER_GRAPH_READY or BLOCK_GRAPH_READY has passed
\* verify_header_graph_ready_block, whichever insertion promoted it.  (A
\* header inserted with need_to_verify = false is a block mined by this node
\* and passes the verification too.)
C35_ReadyHeaderPassedVerification ==
  \A x \in HeaderReadyNodes : verify_header_graph_ready_block(inner.arena, x)

\* the nodes the last operation removed from the graph; each of them was in
\* the graph when the operation began, so its header had been accepted
RemovedByLast == DOMAIN last.before_removal \ DOMAIN inner.arena

\* the following insert_block call for the hash x returns
InsertBlockReturns(x) ==
  \A body \in BodyKinds :
    insert_block(inner, data_man, x, body, TRUE, FALSE, worker_alive).outcome = "returned"

\* C36: for a hash whose header was accepted by insert_block_header, a later
\* insert_block call returns a result and never fails on a missing node,
\* also after remove_expire_blocks or the propagation of BLOCK_INVALID has
\* removed the node.
C36_InsertBlockAfterRemovalReturns ==
  \A x \in RemovedByLast : InsertBlockReturns(x)

(***************************************************************************)
(* remove_expire_blocks on a larger graph: a chain of BLOCK_GRAPH_READY    *)
(* blocks and a few headers that wait for a parent that never arrives.     *)
(***************************************************************************)
\* the number of blocks of the longest chain, the genesis block included
MaxReady == 11
\* the number of waiting headers
MaxWaiting == 4

\* the hashes of the headers that wait
WaitingHashes == (MaxReady + 1)..(MaxReady + MaxWaiting)

\* the hash of the parent that never arrives
MissingHash == MaxReady + MaxWaiting + 1

\* the chain 1, 2, ..., MaxReady; two headers whose parent is missing, and
\* under each of these a chain of the remaining waiting headers
ExpireWorld ==
  [h \in 1..MissingHash |->
     IF h = 1 THEN genesis_header
     ELSE IF h <= MaxReady
       THEN Header(h, h - 1, <<>>, h - 1, 0, GENESIS_GAS_LIMIT, initial_difficulty, TRUE)
     ELSE IF h = MissingHash \/ h <= MaxReady + 2
       THEN Header(h, IF h = MissingHash THEN 1 ELSE MissingHash, <<>>,
                   IF h = MissingHash THEN 1 ELSE 2, 1, GENESIS_GAS_LIMIT,
                   initial_difficulty, TRUE)
     ELSE Header(h, h - 2, <<>>, 3 + ((h - MaxReady - 3) \div 2), 1, GENESIS_GAS_LIMIT,
                 initial_difficulty, TRUE)]

InitExpire ==
  /\ block_table = ExpireWorld
  /\ inner = with_genesis_block(genesis_header, 0)
  /\ data_man = [invalid |-> {}, headers |-> {GENESIS_HASH}, blocks |-> {GENESIS_HASH},
                 block_status |-> <<>>]
  /\ recovery = [phase |-> "done", pc |-> "pop", queue |-> <<>>, visited_blocks |-> {},
                 missed_hashes |-> {}]
  /\ consensus = consensus_with_genesis_block(genesis_header)
  /\ consensus_channel = <<>>
  /\ worker_alive = TRUE
  /\ now = 0
  /\ sent = <<>>
  /\ handled = <<>>
  /\ last = LastOp("new", GENESIS_HASH, "none", FALSE, TRUE, "returned",
                   inner.arena, data_man, inner.arena)
  /\ bft = BftIdle
  /\ brutal = BrutalIdle

\* the header of the next block of the chain arrives once its parent is
\* BLOCK_GRAPH_READY
InsertChainHeader ==
  /\ \E hash \in (2..MaxReady) \ DOMAIN inner.arena :
       /\ GraphReadyIn(inner.arena, hash - 1)
       /\ CommitHeader(hash, TRUE,
                       insert_block_header(inner, data_man, HeaderOf(hash), TRUE, now))
  /\ UNCHANGED <<block_table, consensus, consensus_channel, worker_alive, now,
                 recovery, sent, handled>>
  /\ UNCHANGED <<bft, brutal>>

\* the body of a block of the chain arrives
InsertChainBlock ==
  /\ \E hash \in (2..MaxReady) \cap DOMAIN inner.arena :
       /\ ~inner.arena[hash].block_ready
       /\ CommitBlock(hash, "valid", TRUE,
                      insert_block(inner, data_man, hash, "valid", TRUE, FALSE,
                                   worker_alive),
                      "channel")
  /\ UNCHANGED <<block_table, worker_alive, now, recovery, handled>>
  /\ UNCHANGED <<bft, brutal>>

\* a peer sends one of the waiting headers
InsertWaitingHeader ==
  /\ \E hash \in WaitingHashes \ DOMAIN inner.arena :
       CommitHeader(hash, TRUE,
                    insert_block_header(inner, data_man, HeaderOf(hash), TRUE, now))
  /\ UNCHANGED <<block_table, consensus, consensus_channel, worker_alive, now,
                 recovery, sent, handled>>
  /\ UNCHANGED <<bft, brutal>>

NextExpire ==
  \/ InsertChainHeader
  \/ InsertChainBlock
  \/ InsertWaitingHeader
  \/ RemoveExpireBlocks
  \/ Tick

SpecExpire == InitExpire /\ [][NextExpire]_vars

\* the nodes of the graph that are not BLOCK_GRAPH_READY
NotGraphReady ==
  {x \in DOMAIN inner.arena : inner.arena[x].graph_status # BLOCK_GRAPH_READY}

\* more than 10% of the nodes are not BLOCK_GRAPH_READY
ManyNotReady == Cardinality(NotGraphReady) * 10 > Cardinality(DOMAIN inner.arena)

\* the children and the referrers of x
Successors(x) == Range(inner.arena[x].children) \cup Range(inner.arena[x].referrers)

\* the nodes that are not BLOCK_GRAPH_READY and have no descendant that is
\* not BLOCK_GRAPH_READY
WithoutPendingDescendants == {x \in NotGraphReady : Successors(x) \cap NotGraphReady = {}}

\* the nodes that are not BLOCK_GRAPH_READY and are not the child or the
\* referrer of a node that is not BLOCK_GRAPH_READY
WithoutPendingAncestors ==
  NotGraphReady \ UNION {Successors(y) : y \in NotGraphReady}

\* the timestamp of x is older than expire_time allows
Expired(x, expire_time) == now - inner.arena[x].timestamp > expire_time

\* the nodes a call of remove_expire_blocks marks BLOCK_INVALID: the nodes of
\* the arena before the removal that are BLOCK_INVALID and were not so before
MarkedByExpire(r) == MarkedIn(inner.arena, r.before_removal)

RemovedByExpire(r) == DOMAIN inner.arena \ DOMAIN r.inner.arena

\* a call that does not act leaves the graph and the data manager alone
ExpireIdle(r) == r.inner = inner /\ r.data_man = data_man

\* C37: remove_expire_blocks changes nothing unless more than 10% of the
\* nodes are not BLOCK_GRAPH_READY; when it acts, it marks BLOCK_INVALID
\* exactly the nodes without pending descendants whose timestamp is older
\* than expire_time.
C37_ExpiresNodesWithoutPendingDescendants ==
  \A expire_time \in 0..MaxTime :
    LET r == remove_expire_blocks(inner, data_man, expire_time, now)
    IN IF ManyNotReady
         THEN MarkedByExpire(r)
                = {x \in WithoutPendingDescendants : Expired(x, expire_time)}
         ELSE ExpireIdle(r)

\* the nodes the call starts from, and all their descendants
ExpireSeeds(expire_time) ==
  {x \in WithoutPendingAncestors :
     inner.arena[x].graph_status = BLOCK_INVALID \/ Expired(x, expire_time)}

ExpireReach(expire_time) ==
  DescendantsOf(inner.arena, ExpireSeeds(expire_time), ExpireSeeds(expire_time))

\* C37 (amended): remove_expire_blocks changes nothing unless more than 10%
\* of the nodes are not BLOCK_GRAPH_READY; when it acts, it starts from the
\* nodes that are not BLOCK_GRAPH_READY and are not the child or referrer of
\* such a node, takes those that are BLOCK_INVALID or older than
\* expire_time, marks them and all their descendants BLOCK_INVALID and
\* removes exactly these nodes.
C37_ExpiresFromNodesWithoutPendingAncestors ==
  \A expire_time \in 0..MaxTime :
    LET r == remove_expire_blocks(inner, data_man, expire_time, now)
    IN IF ManyNotReady
         THEN /\ r.acted
              /\ InvalidNodes(r.before_removal) \cap DOMAIN inner.arena
                   = ExpireReach(expire_time) \cup InvalidNodes(inner.arena)
              /\ RemovedByExpire(r) = ExpireReach(expire_time)
         ELSE ~r.acted /\ ExpireIdle(r)

\* a call acts on a graph where an expired node has a child that has not
\* expired, and both are removed
C37_Witness ==
  /\ ManyNotReady
  /\ \E expire_time \in 0..MaxTime :
       \E x \in ExpireSeeds(expire_time) : \E y \in Successors(x) :
         /\ ~Expired(y, expire_time)
         /\ {x, y} \subseteq
              RemovedByExpire(remove_expire_blocks(inner, data_man, expire_time, now))

\* what an invocation of try_clear_old_era_blocks on the current graph
\* returns
ClearedNow == try_clear_old_era_blocks([inner |-> inner, data_man |-> data_man])

\* the nodes the invocation removes
ClearedNodes == DOMAIN inner.arena \ DOMAIN ClearedNow.inner.arena

\* x is strictly below the current era genesis
BelowEraGenesis(x) ==
  HeaderOf(x).height < HeaderOf(get_genesis_in_current_era(inner)).height

MaxAbove == 2

\* the iterations of one loop that are followed
MaxIterations == 3

\* the height of the first block of the era the chain ends in
ChainBases == {0, ERA_EPOCH_COUNT}

\* past_era_weight of the block of height ERA_EPOCH_COUNT - 1: the weight of
\* the blocks of the first era below it, none or all of which count
BelowWeights == {0, ERA_EPOCH_COUNT - 1}

ChainKinds == {"normal", "partial_invalid", "adaptive"}

\* the difficulty of the new block
BrutalDifficulties == {1, 2}

\* the chain starts at the genesis block or, in the second era, at the
\* parent of the first block of the era
ChainLow(base) == IF base = 0 THEN 0 ELSE base - 1

\* the chains that end in the era of base: len blocks with indices
\* 0 .. len - 1, of the given kinds, the blocks in side each with one more
\* child beside the chain
ChainGraphsOf(base) ==
  UNION {[base : {base}, len : {len}, kind : [0..len - 1 -> ChainKinds],
          stable : [0..len - 1 -> BOOLEAN], side : SUBSET (0..len - 1),
          below : IF base = 0 THEN {0} ELSE BelowWeights] :
           len \in (1 + base - ChainLow(base))..(1 + MaxAbove + base - ChainLow(base))}

ChainGraphs == UNION {ChainGraphsOf(base) : base \in ChainBases}

\* a node of ConsensusGraphInner.arena
ChainBlock(height, parent, children, kind, stable) ==
  [height |-> height, parent |-> parent, children |-> children, difficulty |-> 1,
   adaptive |-> kind = "adaptive", is_heavy |-> FALSE, stable |-> stable,
   past_era_weight |-> 0, data |-> [partial_invalid |-> kind = "partial_invalid"]]

\* the arena of the chain g before past_era_weight is set; the child of
\* block i beside the chain has index len + i
ChainInserted(g) ==
  Table([x \in (0..g.len - 1) \cup {g.len + i : i \in g.side} |->
           IF x < g.len
             THEN ChainBlock(ChainLow(g.base) + x,
                             IF x = 0 THEN NULL ELSE x - 1,
                             (IF x + 1 < g.len THEN <<x + 1>> ELSE <<>>)
                               \o (IF x \in g.side THEN <<g.len + x>> ELSE <<>>),
                             g.kind[x], g.stable[x])
             ELSE ChainBlock(ChainLow(g.base) + (x - g.len) + 1, x - g.len, <<>>,
                             "normal", TRUE)])

RECURSIVE AncestorAtHeight(_, _, _)
\* inclusive_weight_tree.ancestor_at(v, height): the ancestor of v (v
\* included) of the given height, NULL below the chain
AncestorAtHeight(arena, v, height) ==
  IF v = NULL THEN NULL
  ELSE IF arena[v].height = height THEN v
  ELSE AncestorAtHeight(arena, arena[v].parent, height)

RECURSIVE ChainPastEraWeight(_, _, _)
\* past_era_weight of block me of the chain as insert sets it; the block
\* beside the chain under block i is in the epoch of block i + 2
ChainPastEraWeight(g, arena, me) ==
  IF me = 0 THEN g.below
  ELSE LET parent == arena[me].parent
           era_height == get_era_height(arena[parent].height, 0)
           era_genesis == AncestorAtHeight(arena, parent, era_height)
           blockset_in_own_view_of_epoch ==
             IF me >= 2 THEN {g.len + (me - 2)} \cap DOMAIN arena ELSE {}
           in_era ==
             IF era_height = 0 THEN blockset_in_own_view_of_epoch
             ELSE {index \in blockset_in_own_view_of_epoch :
                     /\ arena[index].height >= era_height
                     /\ AncestorAtHeight(arena, index, era_height) = era_genesis}
           weight_era_in_my_epoch ==
             SumOver([index \in blockset_in_own_view_of_epoch |->
                        block_weight(arena, index, FALSE)], in_era)
       IN IF parent # era_genesis
            THEN ChainPastEraWeight(g, arena, parent)
                 + block_weight(arena, parent, FALSE) + weight_era_in_my_epoch
            ELSE block_weight(arena, parent, FALSE) + weight_era_in_my_epoch

\* the arena of the chain g; past_era_weight of the blocks beside the chain
\* is never read
ChainArena(g) ==
  LET arena == ChainInserted(g)
  IN Table([x \in DOMAIN arena |->
              IF x < g.len
                THEN [arena[x] EXCEPT !.past_era_weight = ChainPastEraWeight(g, arena, x)]
                ELSE arena[x]])

RECURSIVE SubtreeSum(_, _, _)
\* own[index] plus the sums of the children of index
SubtreeSum(arena, index, own) ==
  own[index]
  + SumOver([child \in Range(arena[index].children) |-> SubtreeSum(arena, child, own)],
            Range(arena[index].children))

\* compute_subtree_weights over the blocks outside the anticone barrier
compute_subtree_weights(arena) ==
  [subtree_weight |->
     [x \in DOMAIN arena |->
        SubtreeSum(arena, x, [y \in DOMAIN arena |-> block_weight(arena, y, FALSE)])],
   subtree_inclusive_weight |->
     [x \in DOMAIN arena |->
        SubtreeSum(arena, x, [y \in DOMAIN arena |-> block_weight(arena, y, TRUE)])],
   subtree_stable_weight |->
     [x \in DOMAIN arena |->
        SubtreeSum(arena, x, [y \in DOMAIN arena |->
                                IF arena[y].stable THEN block_weight(arena, y, FALSE)
                                ELSE 0])]]

\* alpha_den * a - alpha_num * w < 0
BelowAlpha(a, w) == adaptive_weight_alpha_den * a - adaptive_weight_alpha_num * w < 0

\* the values adaptive_weight_impl_brutal computes before its loops
BrutalEraHeight == get_era_height(brutal.arena[brutal.parent_0].height, 0)

BrutalTwoEraHeight ==
  get_era_height(brutal.arena[brutal.parent_0].height, ERA_EPOCH_COUNT)

BrutalTotalWeight ==
  compute_subtree_weights(brutal.arena).subtree_weight[
    AncestorAtHeight(brutal.arena, brutal.parent_0, BrutalEraHeight)]

BrutalAdjustedBeta == adaptive_weight_beta * brutal.difficulty

BrutalUnchanged ==
  UNCHANGED <<block_table, inner, data_man, consensus, consensus_channel, worker_alive,
              now, recovery, sent, handled, last, bft>>

InitBrutal ==
  /\ block_table = Table([h \in {GENESIS_HASH} |-> genesis_header])
  /\ inner = with_genesis_block(genesis_header, 0)
  /\ data_man = [invalid |-> {}, headers |-> {GENESIS_HASH},
                 blocks |-> {GENESIS_HASH}, block_status |-> <<>>]
  /\ consensus = consensus_with_genesis_block(genesis_header)
  /\ consensus_channel = <<>>
  /\ worker_alive = TRUE
  /\ now = 0
  /\ recovery = [phase |-> "done", pc |-> "pop", queue |-> <<>>, visited_blocks |-> {},
                 missed_hashes |-> {}]
  /\ sent = <<>>
  /\ handled = <<>>
  /\ last = LastOp("new", GENESIS_HASH, "none", FALSE, TRUE, "returned",
                   inner.arena, data_man, inner.arena)
  /\ bft = BftIdle
  /\ \E g \in ChainGraphs, difficulty \in BrutalDifficulties :
       brutal = [BrutalIdle EXCEPT !.arena = ChainArena(g), !.parent_0 = g.len - 1,
                                   !.difficulty = difficulty]

\* the call: parent = parent_0 and stable = true
BrutalCall ==
  /\ brutal.pc = "none"
  /\ brutal' = [brutal EXCEPT !.pc = "stable_loop", !.parent = brutal.parent_0,
                              !.stable = TRUE, !.adaptive = FALSE,
                              !.entered = brutal.parent_0, !.iterations = 0]
  /\ BrutalUnchanged

\* the test and the body of the first loop
StableLoop ==
  /\ brutal.pc = "stable_loop"
  /\ brutal.iterations < MaxIterations
  /\ LET arena == brutal.arena
         parent == brutal.parent
         grandparent == arena[parent].parent
         w == BrutalTotalWeight - arena[grandparent].past_era_weight
              - block_weight(arena, grandparent, FALSE)
         a == compute_subtree_weights(arena).subtree_weight[parent]
     IN IF arena[parent].height = BrutalEraHeight
          THEN brutal' = [brutal EXCEPT !.pc = "inclusive_loop", !.entered = parent,
                                        !.iterations = 0]
          ELSE IF w > BrutalAdjustedBeta /\ BelowAlpha(a, w)
            THEN brutal' = [brutal EXCEPT !.stable = FALSE, !.pc = "adaptive_loop",
                                          !.parent = brutal.parent_0,
                                          !.entered = brutal.parent_0,
                                          !.iterations = 0]
            ELSE brutal' = [brutal EXCEPT !.parent = grandparent, !.iterations = @ + 1]
  /\ BrutalUnchanged

\* the test and the body of the second loop, entered when stable is false
AdaptiveLoop ==
  /\ brutal.pc = "adaptive_loop"
  /\ brutal.iterations < MaxIterations
  /\ LET arena == brutal.arena
         parent == brutal.parent
         grandparent == arena[parent].parent
         w == compute_subtree_weights(arena).subtree_weight[grandparent]
         a == compute_subtree_weights(arena).subtree_stable_weight[parent]
     IN IF arena[parent].height = BrutalEraHeight
          THEN brutal' = [brutal EXCEPT !.pc = "inclusive_loop", !.entered = parent,
                                        !.iterations = 0]
          ELSE IF w > BrutalAdjustedBeta /\ BelowAlpha(a, w)
            THEN brutal' = [brutal EXCEPT !.adaptive = TRUE, !.pc = "returned"]
            ELSE brutal' = [brutal EXCEPT !.parent = grandparent, !.iterations = @ + 1]
  /\ BrutalUnchanged

\* the test and the body of the third loop, entered when adaptive is false:
\* the body does not assign parent
InclusiveLoop ==
  /\ brutal.pc = "inclusive_loop"
  /\ brutal.iterations < MaxIterations
  /\ LET arena == brutal.arena
         parent == brutal.parent
         grandparent == arena[parent].parent
         w == compute_subtree_weights(arena).subtree_inclusive_weight[grandparent]
         a == compute_subtree_weights(arena).subtree_inclusive_weight[parent]
     IN IF arena[parent].height = BrutalTwoEraHeight
          THEN brutal' = [brutal EXCEPT !.pc = "returned"]
          ELSE IF w > BrutalAdjustedBeta /\ BelowAlpha(a, w)
            THEN brutal' = [brutal EXCEPT !.adaptive = TRUE, !.pc = "returned"]
            ELSE brutal' = [brutal EXCEPT !.iterations = @ + 1]
  /\ BrutalUnchanged

NextBrutal ==
  \/ BrutalCall
  \/ StableLoop
  \/ AdaptiveLoop
  \/ InclusiveLoop

SpecBrutal == InitBrutal /\ [][NextBrutal]_vars

\* the call is in one of its loops
InBrutalLoop == brutal.pc \in {"stable_loop", "adaptive_loop", "inclusive_loop"}

\* C39: adaptive_weight_impl_brutal terminates: every iteration of each of
\* its loops moves parent one block down the ancestor chain, towards the era
\* boundary the loop stops at.
C39_EveryLoopAdvances ==
  InBrutalLoop =>
    brutal.iterations
      = brutal.arena[brutal.entered].height - brutal.arena[brutal.parent].height

\* the first two loops do advance
C39_FirstLoopsAdvance ==
  brutal.pc \in {"stable_loop", "adaptive_loop"} =>
    brutal.iterations
      = brutal.arena[brutal.entered].height - brutal.arena[brutal.parent].height

\* the third loop went round MaxIterations times with the same parent
C39_Spins ==
  /\ brutal.pc = "inclusive_loop"
  /\ brutal.iterations = MaxIterations
  /\ brutal.parent = brutal.entered

\* the ConsensusGraphInner that on_new_block_construction_only for every
\* handled block, with the statuses on_new_block stored, and then
\* construct_pivot build from the genesis block
Rebuilt ==
  construct_pivot(ConstructAll(consensus_with_genesis_block(genesis_header), handled,
                               data_man.block_status))

\* C40: on_new_block_construction_only for every block, with the stored
\* partial-invalid statuses, and then construct_pivot give the pivot_chain
\* and the epoch_number of every block that on_new_block gave for the same
\* sequence of blocks.
C40_ConstructionOnlyAgrees ==
  /\ Rebuilt.pivot_chain = consensus.pivot_chain
  /\ \A x \in DOMAIN consensus.arena :
       Rebuilt.arena[x].data.epoch_number = consensus.arena[x].data.epoch_number

\* the two agree as long as on_new_block flagged no block partial_invalid
C40_AgreesWithoutPartialInvalid ==
  (\A x \in DOMAIN consensus.arena : ~consensus.arena[x].data.partial_invalid)
    => C40_ConstructionOnlyAgrees

====
